---------------------------- MODULE Spec2Model ----------------------------
(***************************************************************************)
(* A model of the Atlas "War Room" bot: the batch sender of embed cards    *)
(* (bot.py), the persistence operations (db_manager.py), the officer       *)
(* fan-out rounds and the interaction handlers (bot.py).  The              *)
(* specifications share the variables: SpecBatch, SpecDB, SpecSeed,        *)
(* SpecTx, SpecTxFail, SpecEnsure, SpecRound, SpecCmd, SpecStart and       *)
(* SpecMem.                                                                *)
(***************************************************************************)
EXTENDS Integers, Sequences, FiniteSets, TLC

VARIABLES
    \* ---- send_embeds_in_batches (bot.py 728-754)
    embeds,          \* the input list of cards
    view,            \* TRUE: a View object was passed, FALSE: view is None
    idx,             \* position of the for loop (1-based index of the next card)
    current_batch,   \* indices (into embeds) of the cards accumulated so far
    current_size,    \* running size of current_batch
    sent,            \* the messages passed to interaction.followup.send, in order
    bpc,             \* "loop" | "done"
    \* ---- the database (models/memory.py, db_manager.py)
    channels,        \* rows of table channels (channel_id is the primary key)
    missions,        \* rows of mission_history, in insertion order
    responses,       \* rows of mission_officer_response, in insertion order
    notes,           \* rows of manual_notes, in insertion order
    next_id,         \* next generated id of each table
    db_call,         \* the last db_manager call that completed, with its outcome
    \* ---- a fan-out round (bot.py 438-659)
    roster,          \* the roster file: OFFICERS and ACTIVE_ROSTER
    call,            \* the orchestrator call: its name and arguments
    orch,            \* "idle" | "gathering" | "returned" | "raised_ValueError" | "raised"
    client,          \* the httpx.AsyncClient: "none" | "open" | "closed"
    tasks,           \* one record per dispatched officer query, in dispatch order
    round_results,   \* the list the orchestrator returned
    requests,        \* number of HTTP requests issued
    \* ---- the officers table (db_manager.py 19-58)
    officer_rows,    \* rows of table officers, in insertion order
    \* ---- concurrent save_mission calls (db_manager.py 125-158)
    sessions,        \* one record per call: its session and what it holds
    \* ---- the interaction handlers (bot.py 136-169, 243-285, 400-435, 776-1034)
    cmd,             \* the handler that runs or ran last, and what it did
    dialogs          \* the ConfirmClearView objects that are open: their pairs

batchVars == <<embeds, view, idx, current_batch, current_size, sent, bpc>>

dbVars == <<channels, missions, responses, notes, next_id, db_call>>

roundVars == <<roster, call, orch, client, tasks, round_results, requests>>

seedVars == <<officer_rows>>

txVars == <<sessions>>

cmdVars == <<cmd, dialogs>>

vars == <<batchVars, dbVars, roundVars, seedVars, txVars, cmdVars>>

\* The batch sender at rest (the other specifications leave it there)
BatchIdle ==
    /\ embeds = <<>>
    /\ view = FALSE
    /\ idx = 1
    /\ current_batch = <<>>
    /\ current_size = 0
    /\ sent = <<>>
    /\ bpc = "done"

(***************************************************************************)
(* The roster file (bot.py 33-38).  A name is the sequence of its words;   *)
(* Lower is str.lower() on the words the rosters and the commands use.     *)
(***************************************************************************)
None == "<None>"

\* channel_id = None, the default of the query functions (bot.py 439, 500)
NoChannel == 0

\* A plain query has no research role
NoRole == -1

\* Python truthiness of an optional str argument (`if not capability_class`)
Falsy(x) == x = None \/ x = ""

\* Python truthiness of an optional int argument (`if channel_id`)
FalsyId(x) == x = NoChannel

Lower(w) ==
    CASE w \in {"Tactical", "TACTICAL", "tactical"} -> "tactical"
      [] w \in {"Support", "SUPPORT", "support"} -> "support"
      [] w \in {"Strategic", "STRATEGIC", "strategic"} -> "strategic"
      [] w \in {"Perplexity", "perplexity"} -> "perplexity"
      [] w \in {"Google", "google"} -> "google"
      [] w \in {"Gemini", "gemini"} -> "gemini"
      [] OTHER -> w

LowerName(name) == [k \in 1..Len(name) |-> Lower(name[k])]

\* `word in name` for a word of the name
Contains(name, word) == \E k \in 1..Len(name) : name[k] = word

Officer(title, model, class) ==
    [title |-> title, model |-> model, capability_class |-> class]

OfficersTacticalAndSupport ==
    [o \in {"O1", "O2", "O3", "O4", "O5", "O6"} |->
        CASE o = "O1" -> Officer("Alpha", <<"anthropic", "claude">>, "Tactical")
          [] o = "O2" -> Officer("Beta", <<"Perplexity", "sonar">>, "Tactical")
          [] o = "O3" -> Officer("Gamma", <<"google", "Gemini">>, "Tactical")
          [] o = "O4" -> Officer("Delta", <<"google", "palm">>, "Tactical")
          [] o = "O5" -> Officer("Epsilon", <<"openai", "gpt">>, "Support")
          [] o = "O6" -> Officer("Zeta", <<"openai", "gpt">>, "Tactical")]

OfficersAllTactical ==
    [o \in {"O1", "O2", "O3", "O4", "O5"} |->
        [OfficersTacticalAndSupport[o] EXCEPT !.capability_class = "Tactical"]]

\* Two roster files: four Tactical officers, one Support officer and an
\* officer that is not on the active roster; and five Tactical officers.
RosterSet ==
    { [officers |-> OfficersTacticalAndSupport,
       active_roster |-> <<"O1", "O2", "O3", "O4", "O5">>],
      [officers |-> OfficersAllTactical,
       active_roster |-> <<"O1", "O2", "O3", "O4", "O5">>] }

OFFICERS == roster.officers

ACTIVE_ROSTER == roster.active_roster

NoCall == [name |-> "none"]

DbEmpty ==
    /\ channels = {}
    /\ missions = <<>>
    /\ responses = <<>>
    /\ notes = <<>>
    /\ next_id = [mission |-> 1, response |-> 1, note |-> 1]
    /\ db_call = NoCall

\* No round was started
RoundIdle ==
    /\ roster = [officers |-> OfficersTacticalAndSupport,
                 active_roster |-> <<"O1", "O2", "O3", "O4", "O5">>]
    /\ call = NoCall
    /\ orch = "idle"
    /\ client = "none"
    /\ tasks = <<>>
    /\ round_results = <<>>
    /\ requests = 0

\* No officer was seeded, no save_mission call is in flight, no handler ran
NoCmd == [name |-> "none", pc |-> "done"]

RestIdle ==
    /\ officer_rows = <<>>
    /\ sessions = <<>>
    /\ cmd = NoCmd
    /\ dialogs = {}

(***************************************************************************)
(* Helpers                                                                 *)
(***************************************************************************)
RECURSIVE SumSeq(_)
SumSeq(s) == IF s = <<>> THEN 0 ELSE Head(s) + SumSeq(Tail(s))

RECURSIVE Flatten(_)
Flatten(ss) == IF ss = <<>> THEN <<>> ELSE Head(ss) \o Flatten(Tail(ss))

SeqsUpTo(S, n) == UNION {[1..k -> S] : k \in 0..n}

(***************************************************************************)
(* Texts.  A stored text is [id, len]: the first len characters of the     *)
(* text named id.  Slicing s[:k] keeps the id and shortens the length.  A  *)
(* formatted text (an f-string, a join) is the sequence of its pieces;     *)
(* Lit(n) is a piece of n characters of punctuation written by the code.   *)
(***************************************************************************)
Min(a, b) == IF a <= b THEN a ELSE b

Str(id, n) == [id |-> id, len |-> n]

\* Python's None where a text is expected
NoneText == Str(<<"None">>, 0)

IsNone(s) == s.id = <<"None">>

Lit(n) == Str(<<"lit">>, n)

\* A slice that cuts nothing
SliceKeepsAll(s, k) == Str(s.id, s.len)

\* s[:k] of one text
Slice(s, k) == Str(s.id, Min(s.len, k))

TextLen(t) == SumSeq([k \in 1..Len(t) |-> t[k].len])

\* t[:k] of a formatted text: whole pieces while they fit, then a cut piece
RECURSIVE TextSlice(_, _)
TextSlice(t, k) ==
    IF t = <<>> \/ k <= 0 THEN <<>>
    ELSE IF Head(t).len <= k
         THEN <<Head(t)>> \o TextSlice(Tail(t), k - Head(t).len)
         ELSE <<Slice(Head(t), k)>>

\* sep.join(parts)
RECURSIVE Join(_, _)
Join(sep, parts) ==
    IF parts = <<>> THEN <<>>
    ELSE IF Len(parts) = 1 THEN Head(parts)
         ELSE Head(parts) \o <<sep>> \o Join(sep, Tail(parts))

Reverse(s) == [k \in 1..Len(s) |-> s[Len(s) + 1 - k]]

FirstN(s, n) == SubSeq(s, 1, Min(Len(s), n))

(***************************************************************************)
(* The database.  Each db_manager function opens its own session and       *)
(* commits once, so a call that runs alone is one step.  The columns kept  *)
(* are those some operation reads; timestamps are the insertion order.     *)
(***************************************************************************)
MaxMissions == 2
MaxNotes == 2

Channels == {1, 2}
DbOfficers == {"O1", "O2"}

\* interaction.channel.name at the time of a command: channel 1 was renamed
\* at some point
ChannelNames(channel_id) ==
    IF channel_id = 1 THEN {"general", "war-room"} ELSE {"research"}

ChannelIds == {row.channel_id : row \in channels}

BRIEF_CAP == 1000
RESPONSE_CAP == 2000
NOTE_LIMIT == 10
MISSION_LIMIT == 5
BRIEF_SHOWN == 100
RESPONSE_SHOWN == 200
DEFAULT_MAX_TOKENS == 2000

\* What the callers pass.  The text a user writes as a note for (o, c), the
\* brief of the k-th mission of channel c and the answer officer o gives to
\* it are distinct texts, named after where they belong.  The briefs and the
\* answers have lengths below, at and above the caps of save_mission.
NoteText(o, c, k) == Str(<<"note", o, c, k>>, 40)
BriefText(c, k) ==
    Str(<<"brief", c, k>>, IF k = 1 THEN 1500 ELSE IF c = 1 THEN 1000 ELSE 400)
ResponseText(o, c, k, ok) ==
    Str(<<"resp", o, c, k>>, IF ~ok THEN 30 ELSE IF o = "O1" THEN 2500 ELSE 2000)

\* An officer result as save_mission reads it
Result(o, c, k, ok, err) ==
    [officer_id |-> o, response |-> ResponseText(o, c, k, ok), success |-> ok,
     error |-> err]

\* The result lists of a round in channel c that becomes mission k
ResultLists(c, k) ==
    { <<>>,
      <<Result("O1", c, k, TRUE, FALSE), Result("O2", c, k, FALSE, TRUE)>>,
      <<Result("O1", c, k, FALSE, FALSE), Result("O2", c, k, TRUE, FALSE)>> }

\* An ensure that writes the name it was given over the stored one
EnsureChannelUpsert(channel_id, channel_name) ==
    /\ channels' = {row \in channels : row.channel_id # channel_id}
                       \cup {[channel_id |-> channel_id, channel_name |-> channel_name]}
    /\ db_call' = [name |-> "ensure_channel_exists", channel_id |-> channel_id,
                   channel_name |-> channel_name,
                   committed |-> TRUE, raised |-> FALSE]
    /\ UNCHANGED <<missions, responses, notes, next_id>>

\* db_manager.py 60-75: the row is looked up by its id; only when there is
\* none, a row is added and the session commits
ensure_channel_exists(channel_id, channel_name) ==
    LET existing == {row \in channels : row.channel_id = channel_id}
    IN /\ channels' = IF existing # {} THEN channels
                      ELSE channels \cup {[channel_id |-> channel_id,
                                           channel_name |-> channel_name]}
       /\ db_call' = [name |-> "ensure_channel_exists", channel_id |-> channel_id,
                      channel_name |-> channel_name,
                      committed |-> (existing = {}), raised |-> FALSE]
       /\ UNCHANGED <<missions, responses, notes, next_id>>

\* db_manager.py 196-212.  manual_notes.channel_id is a foreign key
\* (models/memory.py 122): the insert of a note of an unknown channel fails
\* at the commit and the session rolls back.
add_manual_note(channel_id, officer_id, note_content) ==
    IF channel_id \in ChannelIds
    THEN /\ notes' = Append(notes, [id |-> next_id.note,
                                    officer_id |-> officer_id,
                                    channel_id |-> channel_id,
                                    note_content |-> note_content,
                                    is_pinned |-> FALSE])
         /\ next_id' = [next_id EXCEPT !.note = @ + 1]
         /\ db_call' = [name |-> "add_manual_note", channel_id |-> channel_id,
                        officer_id |-> officer_id, raised |-> FALSE,
                        exception |-> None]
         /\ UNCHANGED <<channels, missions, responses>>
    ELSE /\ db_call' = [name |-> "add_manual_note", channel_id |-> channel_id,
                        officer_id |-> officer_id, raised |-> TRUE,
                        exception |-> "IntegrityError"]
         /\ UNCHANGED <<channels, missions, responses, notes, next_id>>

\* db_manager.py 146-155 / 182-191: the response rows of mission mission_id
RECURSIVE ResponseRows(_, _, _)
ResponseRows(officer_responses, mission_id, first_id) ==
    IF officer_responses = <<>> THEN <<>>
    ELSE LET response_data == Head(officer_responses)
         IN <<[id |-> first_id,
               mission_id |-> mission_id,
               officer_id |-> response_data.officer_id,
               response_content |-> Slice(response_data.response, RESPONSE_CAP),
               tokens_used |-> response_data.response.len \div 4,
               success |-> response_data.success,
               error_message |-> response_data.error]>>
            \o ResponseRows(Tail(officer_responses), mission_id, first_id + 1)

\* db_manager.py 133-158 and 169-194: one mission row, flushed to obtain its
\* id, then one response row per result, then the commit.
\* mission_history.channel_id is a foreign key (models/memory.py 82): the
\* flush of a mission of an unknown channel fails.  response[:2000] of a
\* response that is None is a TypeError; it leaves the session without a
\* commit, so nothing of the call is stored.
InsertMission(name, channel_id, mission_brief, officer_responses) ==
    IF channel_id \notin ChannelIds
    THEN /\ db_call' = [name |-> name, channel_id |-> channel_id,
                        returned |-> 0, raised |-> TRUE,
                        exception |-> "IntegrityError"]
         /\ UNCHANGED <<channels, missions, responses, notes, next_id>>
    ELSE IF \E k \in 1..Len(officer_responses) : IsNone(officer_responses[k].response)
    THEN /\ db_call' = [name |-> name, channel_id |-> channel_id,
                        returned |-> 0, raised |-> TRUE,
                        exception |-> "TypeError"]
         /\ UNCHANGED <<channels, missions, responses, notes, next_id>>
    ELSE /\ missions' = Append(missions, [id |-> next_id.mission,
                                          channel_id |-> channel_id,
                                          mission_brief |-> Slice(mission_brief, BRIEF_CAP)])
         /\ responses' = responses \o ResponseRows(officer_responses, next_id.mission,
                                                   next_id.response)
         /\ next_id' = [next_id EXCEPT !.mission = @ + 1,
                                       !.response = @ + Len(officer_responses)]
         /\ db_call' = [name |-> name, channel_id |-> channel_id,
                        returned |-> next_id.mission, raised |-> FALSE,
                        exception |-> None]
         /\ UNCHANGED <<channels, notes>>

save_mission(channel_id, mission_brief, officer_responses) ==
    InsertMission("save_mission", channel_id, mission_brief, officer_responses)

save_research_mission(channel_id, research_topic, officer_responses) ==
    InsertMission("save_research_mission", channel_id, research_topic, officer_responses)

\* db_manager.py 218-227: the notes a clear deletes
NotesToDeleteAnyChannel(channel_id, officer_id) ==
    {k \in 1..Len(notes) : notes[k].officer_id = officer_id}

NotesToDelete(channel_id, officer_id) ==
    {k \in 1..Len(notes) :
        notes[k].officer_id = officer_id /\ notes[k].channel_id = channel_id}

RECURSIVE Without(_, _, _)
Without(s, drop, k) ==
    IF k > Len(s) THEN <<>>
    ELSE (IF k \in drop THEN <<>> ELSE <<s[k]>>) \o Without(s, drop, k + 1)

\* db_manager.py 214-233
clear_officer_memory(channel_id, officer_id) ==
    /\ notes' = Without(notes, NotesToDelete(channel_id, officer_id), 1)
    /\ db_call' = [name |-> "clear_officer_memory", channel_id |-> channel_id,
                   officer_id |-> officer_id, raised |-> FALSE]
    /\ UNCHANGED <<channels, missions, responses, next_id>>

\* db_manager.py 81-88: the notes of the pair, pinned first, newest first.
\* No operation sets is_pinned, and created_at grows with the insertion order.
RECURSIVE SelectRows(_, _, _)
SelectRows(s, keep, k) ==
    IF k > Len(s) THEN <<>>
    ELSE (IF k \in keep THEN <<s[k]>> ELSE <<>>) \o SelectRows(s, keep, k + 1)

NotesOfAnyChannel(channel_id, officer_id) ==
    LET mine == {k \in 1..Len(notes) : notes[k].officer_id = officer_id}
        newest == Reverse(SelectRows(notes, mine, 1))
        pinned == {k \in 1..Len(newest) : newest[k].is_pinned}
    IN FirstN(SelectRows(newest, pinned, 1)
              \o SelectRows(newest, (1..Len(newest)) \ pinned, 1), NOTE_LIMIT)

NotesOf(channel_id, officer_id) ==
    LET mine == {k \in 1..Len(notes) :
                    notes[k].officer_id = officer_id /\ notes[k].channel_id = channel_id}
        newest == Reverse(SelectRows(notes, mine, 1))
        pinned == {k \in 1..Len(newest) : newest[k].is_pinned}
    IN FirstN(SelectRows(newest, pinned, 1)
              \o SelectRows(newest, (1..Len(newest)) \ pinned, 1), NOTE_LIMIT)

MissionById(id) == CHOOSE m \in {missions[k] : k \in 1..Len(missions)} : m.id = id

\* db_manager.py 91-100: the successful responses of the officer to missions
\* of the channel, newest mission first, each with its mission's brief
MissionDataWithFailures(channel_id, officer_id) ==
    LET mine == {k \in 1..Len(responses) :
                    /\ responses[k].officer_id = officer_id
                    /\ MissionById(responses[k].mission_id).channel_id = channel_id}
        rows == Reverse(SelectRows(responses, mine, 1))
    IN FirstN([k \in 1..Len(rows) |->
                 [response |-> rows[k],
                  brief |-> MissionById(rows[k].mission_id).mission_brief]],
              MISSION_LIMIT)

MissionData(channel_id, officer_id) ==
    LET mine == {k \in 1..Len(responses) :
                    /\ responses[k].officer_id = officer_id
                    /\ MissionById(responses[k].mission_id).channel_id = channel_id
                    /\ responses[k].success = TRUE}
        rows == Reverse(SelectRows(responses, mine, 1))
    IN FirstN([k \in 1..Len(rows) |->
                 [response |-> rows[k],
                  brief |-> MissionById(rows[k].mission_id).mission_brief]],
              MISSION_LIMIT)

\* A format that writes both section headers whatever was found
FormatMemoryAlwaysHeaders(note_rows, mission_data, max_tokens) ==
    <<Lit(18)>>
    \o Join(Lit(1), [k \in 1..Len(note_rows) |-> <<Lit(2), note_rows[k].note_content>>])
    \o <<Lit(2), Lit(21)>>
    \o Join(Lit(1), [k \in 1..Len(mission_data) |->
                       <<Lit(9), Slice(mission_data[k].brief, BRIEF_SHOWN), Lit(16),
                         Slice(mission_data[k].response.response_content, RESPONSE_SHOWN),
                         Lit(3)>>])

\* db_manager.py 102-123
FormatMemory(note_rows, mission_data, max_tokens) ==
    LET notes_text ==
            Join(Lit(1), [k \in 1..Len(note_rows) |->
                            <<Lit(2), note_rows[k].note_content>>])
        missions_text ==
            Join(Lit(1), [k \in 1..Len(mission_data) |->
                            <<Lit(9), Slice(mission_data[k].brief, BRIEF_SHOWN),
                              Lit(16),
                              Slice(mission_data[k].response.response_content,
                                    RESPONSE_SHOWN),
                              Lit(3)>>])
        context_parts ==
            (IF note_rows # <<>> THEN <<<<Lit(18)>> \o notes_text>> ELSE <<>>)
            \o (IF mission_data # <<>> THEN <<<<Lit(21)>> \o missions_text>> ELSE <<>>)
        full_context == Join(Lit(2), context_parts)
        estimated_tokens == TextLen(full_context) \div 4
    IN IF estimated_tokens > max_tokens
       THEN TextSlice(full_context, max_tokens * 4)
       ELSE full_context

\* db_manager.py 77-123: the value load_officer_memory returns
MemoryOf(channel_id, officer_id, max_tokens) ==
    FormatMemory(NotesOf(channel_id, officer_id),
                 MissionData(channel_id, officer_id), max_tokens)

load_officer_memory(channel_id, officer_id, max_tokens) ==
    /\ db_call' = [name |-> "load_officer_memory", channel_id |-> channel_id,
                   officer_id |-> officer_id, max_tokens |-> max_tokens,
                   returned |-> MemoryOf(channel_id, officer_id, max_tokens),
                   raised |-> FALSE]
    /\ UNCHANGED <<channels, missions, responses, notes, next_id>>

DbInit == BatchIdle /\ RoundIdle /\ DbEmpty /\ RestIdle

DbEnsureChannel ==
    /\ \E c \in Channels : \E n \in ChannelNames(c) : ensure_channel_exists(c, n)
    /\ UNCHANGED <<batchVars, roundVars, seedVars, txVars, cmdVars>>

DbAddManualNote ==
    /\ next_id.note <= MaxNotes
    /\ \E c \in Channels, o \in DbOfficers :
          add_manual_note(c, o, NoteText(o, c, next_id.note))
    /\ UNCHANGED <<batchVars, roundVars, seedVars, txVars, cmdVars>>

DbSaveMission ==
    /\ next_id.mission <= MaxMissions
    /\ \E c \in Channels : \E rs \in ResultLists(c, next_id.mission) :
          save_mission(c, BriefText(c, next_id.mission), rs)
    /\ UNCHANGED <<batchVars, roundVars, seedVars, txVars, cmdVars>>

DbSaveResearchMission ==
    /\ next_id.mission <= MaxMissions
    /\ \E c \in Channels : \E rs \in ResultLists(c, next_id.mission) :
          save_research_mission(c, BriefText(c, next_id.mission), rs)
    /\ UNCHANGED <<batchVars, roundVars, seedVars, txVars, cmdVars>>

DbClearOfficerMemory ==
    /\ \E c \in Channels, o \in DbOfficers : clear_officer_memory(c, o)
    /\ UNCHANGED <<batchVars, roundVars, seedVars, txVars, cmdVars>>

\* db_manager.py 77: the budgets a caller passes; the queries pass none and
\* get the default
MaxTokensArgs == {10, 25, DEFAULT_MAX_TOKENS}

DbLoadOfficerMemory ==
    /\ \E c \in Channels, o \in DbOfficers, max_tokens \in MaxTokensArgs :
          load_officer_memory(c, o, max_tokens)
    /\ UNCHANGED <<batchVars, roundVars, seedVars, txVars, cmdVars>>

DbNext ==
    \/ DbEnsureChannel
    \/ DbAddManualNote
    \/ DbSaveMission
    \/ DbSaveResearchMission
    \/ DbClearOfficerMemory
    \/ DbLoadOfficerMemory

SpecDB == DbInit /\ [][DbNext]_vars

(***************************************************************************)
(* The officers table (db_manager.py 19-58).  setup_hook seeds it from the *)
(* roster file at every start of the bot, so the table meets rosters that  *)
(* changed between two starts.                                             *)
(***************************************************************************)
SeedOfficerIds == <<"O1", "O2", "O3">>

\* The entry of officer o in version v of the roster file
OfficerData(o, v) ==
    [title |-> <<"title", o, v>>, model |-> <<"model", o, v>>,
     capability_class |-> IF v = 1 THEN "Tactical" ELSE "Support",
     specialty |-> <<"specialty", o, v>>, system_prompt |-> <<"prompt", o, v>>]

\* The mappings seed_officers is given: some officers, each in a version
SeedMappings ==
    UNION {[S -> {1, 2}] : S \in SUBSET {SeedOfficerIds[k] : k \in 1..Len(SeedOfficerIds)}}

\* list(officers_dict): the keys in the order of the file
SeedKeys(versions) ==
    SelectRows(SeedOfficerIds,
               {k \in 1..Len(SeedOfficerIds) : SeedOfficerIds[k] \in DOMAIN versions}, 1)

\* An upsert that leaves a stored officer as it is
UpsertOfficerKeepsStored(rows, officer_id, officer_data) ==
    IF \E k \in 1..Len(rows) : rows[k].officer_id = officer_id
    THEN rows
    ELSE Append(rows, [officer_id |-> officer_id,
                       title |-> officer_data.title,
                       model |-> officer_data.model,
                       capability_class |-> officer_data.capability_class,
                       specialty |-> officer_data.specialty,
                       system_prompt |-> officer_data.system_prompt])

\* db_manager.py 23-48: one turn of the loop
UpsertOfficer(rows, officer_id, officer_data) ==
    IF \E k \in 1..Len(rows) : rows[k].officer_id = officer_id
    THEN [k \in 1..Len(rows) |->
            IF rows[k].officer_id = officer_id
            THEN [rows[k] EXCEPT !.title = officer_data.title,
                                 !.model = officer_data.model,
                                 !.capability_class = officer_data.capability_class,
                                 !.specialty = officer_data.specialty,
                                 !.system_prompt = officer_data.system_prompt]
            ELSE rows[k]]
    ELSE Append(rows, [officer_id |-> officer_id,
                       title |-> officer_data.title,
                       model |-> officer_data.model,
                       capability_class |-> officer_data.capability_class,
                       specialty |-> officer_data.specialty,
                       system_prompt |-> officer_data.system_prompt])

\* db_manager.py 22-48: the loop over officers_dict.items()
RECURSIVE SeedLoop(_, _, _)
SeedLoop(rows, keys, officers_dict) ==
    IF keys = <<>> THEN rows
    ELSE SeedLoop(UpsertOfficer(rows, Head(keys), officers_dict[Head(keys)]),
                  Tail(keys), officers_dict)

\* A seed that deletes the stored officers the roster no longer has
SeedOfficersDeletesRemoved(keys, officers_dict) ==
    /\ officer_rows' =
          SeedLoop(SelectRows(officer_rows,
                              {k \in 1..Len(officer_rows) :
                                  officer_rows[k].officer_id \in DOMAIN officers_dict}, 1),
                   keys, officers_dict)
    /\ db_call' = [name |-> "seed_officers", officers_dict |-> officers_dict,
                   raised |-> FALSE]
    /\ UNCHANGED <<channels, missions, responses, notes, next_id>>

\* db_manager.py 19-58; the second loop (50-55) only prints
seed_officers(keys, officers_dict) ==
    /\ officer_rows' = SeedLoop(officer_rows, keys, officers_dict)
    /\ db_call' = [name |-> "seed_officers", officers_dict |-> officers_dict,
                   raised |-> FALSE]
    /\ UNCHANGED <<channels, missions, responses, notes, next_id>>

DbSeedOfficers ==
    /\ \E versions \in SeedMappings :
          seed_officers(SeedKeys(versions),
                        [o \in DOMAIN versions |-> OfficerData(o, versions[o])])
    /\ UNCHANGED <<batchVars, roundVars, txVars, cmdVars>>

SeedInit == BatchIdle /\ RoundIdle /\ DbEmpty /\ RestIdle

SeedNext == DbSeedOfficers

SpecSeed == SeedInit /\ [][SeedNext]_vars

(***************************************************************************)
(* Concurrent save_mission calls (db_manager.py 125-158), started together *)
(* by one asyncio.gather.  Each call has its own session, so its own       *)
(* transaction; a call gives up control where it awaits the database: at   *)
(* the flush, which inserts the mission row and obtains its id, and at the *)
(* commit, which inserts the response rows and makes the rows visible.     *)
(* The ids come from the sequences of the tables.                          *)
(***************************************************************************)
MaxCalls == 3

\* The results call j is given: two results, none, one result, ...
CallResults(channel_id, j) ==
    CASE j % 3 = 1 -> <<Result("O1", channel_id, j, TRUE, FALSE),
                        Result("O2", channel_id, j, FALSE, TRUE)>>
      [] j % 3 = 2 -> <<>>
      [] OTHER -> <<Result("O2", channel_id, j, TRUE, FALSE)>>

\* An id taken from the rows that are visible instead of from the sequence
MissionIdFromVisibleRows == Len(missions) + 1

\* db_manager.py 143: the flush obtains the id the sequence generates
MissionIdFromSequence == next_id.mission

\* A response row built before the flush, when mission.id is not assigned
MissionIdBeforeFlush(session) == 0

\* db_manager.py 146-148: the response rows are constructed after the flush
\* and read mission.id, which the flush assigned
MissionIdAtConstruction(session) == session.mission_id

\* A session that commits what was flushed when it is left by an exception
ExitCommitsFlushedRows(flushed_rows) == flushed_rows

\* db_manager.py 133: async with async_session_maker() closes the session
\* when an exception leaves the block; the commit of line 157 was not
\* reached, so the transaction is rolled back and its rows are discarded
SessionExitOnException(flushed_rows) == <<>>

\* The results of a call one of whose officers answered None (query_officer
\* returns the content as the endpoint gave it): the first row can be
\* built, the second cannot
CallResultsWithNone(channel_id, j) ==
    <<Result("O1", channel_id, j, TRUE, FALSE),
      [officer_id |-> "O2", response |-> NoneText, success |-> TRUE,
       error |-> FALSE]>>

\* The calls are created; none has reached the database yet
TxGather ==
    /\ sessions = <<>>
    /\ \E n \in 1..MaxCalls, channel_id \in {1} :
          sessions' = [j \in 1..n |->
                          [channel_id |-> channel_id,
                           mission_brief |-> BriefText(channel_id, j),
                           officer_responses |-> CallResults(channel_id, j),
                           pc |-> "flushing", mission_id |-> 0, returned |-> 0]]
    /\ UNCHANGED <<batchVars, dbVars, roundVars, seedVars, cmdVars>>

\* Calls of which some cannot complete: for a channel that has no row, or
\* with a result whose response is None
TxGatherMalformed ==
    /\ sessions = <<>>
    /\ \E n \in 1..MaxCalls :
          \E input \in [1..n -> {"ok", "no_channel", "none_response"}] :
              sessions' = [j \in 1..n |->
                  LET channel_id == IF input[j] = "no_channel" THEN 2 ELSE 1
                  IN [channel_id |-> channel_id,
                      mission_brief |-> BriefText(channel_id, j),
                      officer_responses |->
                          IF input[j] = "none_response"
                          THEN CallResultsWithNone(channel_id, j)
                          ELSE CallResults(channel_id, j),
                      pc |-> "flushing", mission_id |-> 0, returned |-> 0]]
    /\ UNCHANGED <<batchVars, dbVars, roundVars, seedVars, cmdVars>>

\* db_manager.py 135-143: the mission row is inserted in the call's
\* transaction; the insert fails when the channel row is missing
TxFlush ==
    /\ \E j \in 1..Len(sessions) :
          /\ sessions[j].pc = "flushing"
          /\ IF sessions[j].channel_id \notin ChannelIds
             THEN /\ sessions' = [sessions EXCEPT ![j].pc = "raised"]
                  /\ UNCHANGED next_id
             ELSE /\ sessions' = [sessions EXCEPT ![j].pc = "flushed",
                                                  ![j].mission_id = MissionIdFromSequence]
                  /\ next_id' = [next_id EXCEPT !.mission = @ + 1]
    /\ UNCHANGED <<channels, missions, responses, notes, db_call>>
    /\ UNCHANGED <<batchVars, roundVars, seedVars, cmdVars>>

\* db_manager.py 146-158: the response rows are built and added, the commit
\* inserts them and ends the transaction, the call returns mission.id; a
\* response that is None raises the TypeError of None[:2000] at line 150
TxCommit ==
    /\ \E j \in 1..Len(sessions) :
          LET call_j == sessions[j]
          IN /\ call_j.pc = "flushed"
             /\ IF \E k \in 1..Len(call_j.officer_responses) :
                       IsNone(call_j.officer_responses[k].response)
                THEN /\ sessions' = [sessions EXCEPT ![j].pc = "raised"]
                     /\ missions' = missions \o SessionExitOnException(
                                        <<[id |-> call_j.mission_id,
                                           channel_id |-> call_j.channel_id,
                                           mission_brief |->
                                               Slice(call_j.mission_brief, BRIEF_CAP)]>>)
                     /\ UNCHANGED <<responses, next_id>>
                ELSE /\ missions' = Append(missions,
                                           [id |-> call_j.mission_id,
                                            channel_id |-> call_j.channel_id,
                                            mission_brief |->
                                                Slice(call_j.mission_brief, BRIEF_CAP)])
                     /\ responses' = responses
                                        \o ResponseRows(call_j.officer_responses,
                                                        MissionIdAtConstruction(call_j),
                                                        next_id.response)
                     /\ next_id' = [next_id EXCEPT
                                       !.response = @ + Len(call_j.officer_responses)]
                     /\ sessions' = [sessions EXCEPT ![j].pc = "returned",
                                                     ![j].returned = call_j.mission_id]
    /\ UNCHANGED <<channels, notes, db_call>>
    /\ UNCHANGED <<batchVars, roundVars, seedVars, cmdVars>>

\* The channel of the calls is stored (ensure_channel_exists ran before)
TxInit ==
    /\ BatchIdle
    /\ RoundIdle
    /\ RestIdle
    /\ channels = {[channel_id |-> 1, channel_name |-> "general"]}
    /\ missions = <<>>
    /\ responses = <<>>
    /\ notes = <<>>
    /\ next_id = [mission |-> 1, response |-> 1, note |-> 1]
    /\ db_call = NoCall

TxNext == TxGather \/ TxFlush \/ TxCommit

SpecTx == TxInit /\ [][TxNext]_vars

TxFailNext == TxGatherMalformed \/ TxFlush \/ TxCommit

SpecTxFail == TxInit /\ [][TxFailNext]_vars

(***************************************************************************)
(* Concurrent ensure_channel_exists calls (db_manager.py 60-75), one per   *)
(* command that arrives (bot.py 787, 875).  Each call has its own session  *)
(* and gives up control at its two awaits: the select and the commit.      *)
(* channels.channel_id is the primary key (models/memory.py 37).           *)
(***************************************************************************)
\* The commands arrive; no call has reached the database yet
EnsureGather ==
    /\ sessions = <<>>
    /\ \E n \in 1..MaxCalls :
          \E channel_of \in [1..n -> Channels] :
              sessions' = [j \in 1..n |->
                              [channel_id |-> channel_of[j],
                               channel_name |-> CHOOSE name \in ChannelNames(channel_of[j]) : TRUE,
                               pc |-> "selecting", existing |-> FALSE]]
    /\ UNCHANGED <<batchVars, dbVars, roundVars, seedVars, cmdVars>>

\* db_manager.py 63-68: the select sees the rows that are committed; a call
\* that finds the row leaves the session without writing
EnsureSelect ==
    /\ \E j \in 1..Len(sessions) :
          /\ sessions[j].pc = "selecting"
          /\ LET existing == sessions[j].channel_id \in ChannelIds
             IN sessions' = [sessions EXCEPT
                                ![j].existing = existing,
                                ![j].pc = IF existing THEN "returned" ELSE "adding"]
    /\ UNCHANGED <<batchVars, dbVars, roundVars, seedVars, cmdVars>>

\* db_manager.py 69-75: the row is added and the session commits; the
\* insert of a second row with the same primary key fails with an
\* IntegrityError, which nothing in the function or in the handlers catches
EnsureCommit ==
    /\ \E j \in 1..Len(sessions) :
          /\ sessions[j].pc = "adding"
          /\ IF sessions[j].channel_id \in ChannelIds
             THEN /\ sessions' = [sessions EXCEPT ![j].pc = "raised"]
                  /\ UNCHANGED channels
             ELSE /\ sessions' = [sessions EXCEPT ![j].pc = "returned"]
                  /\ channels' = channels \cup
                                     {[channel_id |-> sessions[j].channel_id,
                                       channel_name |-> sessions[j].channel_name]}
    /\ UNCHANGED <<missions, responses, notes, next_id, db_call>>
    /\ UNCHANGED <<batchVars, roundVars, seedVars, cmdVars>>

\* Channel 1 may be known already, channel 2 is new
EnsureInit ==
    /\ BatchIdle
    /\ RoundIdle
    /\ RestIdle
    /\ channels \in {{}, {[channel_id |-> 1, channel_name |-> "general"]}}
    /\ missions = <<>>
    /\ responses = <<>>
    /\ notes = <<>>
    /\ next_id = [mission |-> 1, response |-> 1, note |-> 1]
    /\ db_call = NoCall

EnsureNext == EnsureGather \/ EnsureSelect \/ EnsureCommit

SpecEnsure == EnsureInit /\ [][EnsureNext]_vars

(***************************************************************************)
(* Officer queries and fan-out rounds (bot.py 438-659).  asyncio runs the  *)
(* coroutines of one round on one thread; a coroutine gives up control at  *)
(* its awaits only: the memory load and the HTTP request.                  *)
(***************************************************************************)
\* A filter that compares the class names as they are written
FilterCaseSensitive(capability_class) ==
    IF Falsy(capability_class) THEN ACTIVE_ROSTER
    ELSE SelectRows(ACTIVE_ROSTER,
                    {k \in 1..Len(ACTIVE_ROSTER) :
                        OFFICERS[ACTIVE_ROSTER[k]].capability_class = capability_class}, 1)

\* bot.py 86-98
filter_officers_by_capability(capability_class) ==
    IF Falsy(capability_class) THEN ACTIVE_ROSTER
    ELSE LET capability_class_lower == Lower(capability_class)
         IN SelectRows(ACTIVE_ROSTER,
                       {k \in 1..Len(ACTIVE_ROSTER) :
                           Lower(OFFICERS[ACTIVE_ROSTER[k]].capability_class)
                               = capability_class_lower}, 1)

\* A test of the model name as it is written
ModelSupportsCaseSensitive(model_name) ==
    \/ Contains(model_name, "perplexity")
    \/ (Contains(model_name, "google") /\ Contains(model_name, "gemini"))

\* bot.py 41-44
model_supports_web_search(model_name) ==
    LET model_lower == LowerName(model_name)
    IN \/ Contains(model_lower, "perplexity")
       \/ (Contains(model_lower, "google") /\ Contains(model_lower, "gemini"))

\* bot.py 56-73, indexed from 0 in the code
RESEARCH_ROLES ==
    <<"State-of-the-Art Researcher", "Critical Analyst", "Optimistic Visionary",
      "Historical Context Provider">>

\* What the completions endpoint can answer to one request: a body with a
\* text, a body whose content is the empty string, a body whose content is
\* null and that carries a tool call, no answer (network error or timeout),
\* a non-2xx status, a body that does not parse or lacks choices[0].message
HttpOutcomes ==
    {"text", "empty", "tool_call", "network_error", "status_error", "malformed_body"}

HttpErrors == {"network_error", "status_error", "malformed_body", "client_closed"}

\* A response value: kind "text" | "empty" | "tool_call_notice" |
\* "empty_notice" | "error"; a notice starts with the warning sign;
\* disclaimer: the web-search disclaimer was put in front of it; message:
\* the exception's text of an error, and of an empty value what it is, the
\* empty string or None
Response(kind, disclaimer, message) ==
    [kind |-> kind, disclaimer |-> disclaimer, message |-> message]

\* bool(content)
Truthy(response) == response.disclaimer \/ response.kind # "empty"

\* content.startswith(warning sign)
StartsWithWarning(response) ==
    ~response.disclaimer /\ response.kind \in {"tool_call_notice", "empty_notice"}

\* bot.py 464-496: the dict query_officer returns
PlainResult(officer_id, outcome) ==
    IF outcome \in HttpErrors
    THEN [officer_id |-> officer_id, research_role |-> None,
          response |-> Response("error", FALSE, outcome),
          success |-> FALSE, error |-> FALSE]
    ELSE [officer_id |-> officer_id, research_role |-> None,
          response |-> CASE outcome = "text" -> Response("text", FALSE, "text")
                         [] outcome = "empty" -> Response("empty", FALSE, "")
                         [] OTHER -> Response("empty", FALSE, None),
          success |-> TRUE, error |-> FALSE]

\* bot.py 586-638: the dict query_officer_with_research_role returns
ResearchResult(officer_id, role_index, use_web_search, outcome) ==
    LET has_web_search == model_supports_web_search(OFFICERS[officer_id].model)
        web_search_requested == use_web_search
        role == RESEARCH_ROLES[role_index + 1]
    IN IF outcome \in HttpErrors
       THEN [officer_id |-> officer_id, research_role |-> role,
             response |-> Response("error", FALSE, outcome),
             success |-> FALSE, error |-> TRUE]
       ELSE LET kind == CASE outcome = "text" -> "text"
                          [] outcome = "tool_call" -> "tool_call_notice"
                          [] OTHER -> "empty_notice"
                content == Response(kind,
                                    web_search_requested /\ ~has_web_search, kind)
            IN [officer_id |-> officer_id, research_role |-> role,
                response |-> content,
                success |-> Truthy(content) /\ ~StartsWithWarning(content),
                error |-> FALSE]

\* bot.py 450-452 and 541-553: the pieces of the system prompt, in order
SystemContent(role_index, web_search_active, memory_context) ==
    <<"system_prompt">>
    \o (IF role_index = NoRole THEN <<>> ELSE <<"role_instruction">>)
    \o (IF web_search_active THEN <<"web_search_note">> ELSE <<>>)
    \o (IF memory_context # <<>> THEN <<"memory">> ELSE <<>>)

\* A query as created by the orchestrator
NewTask(officer_id, role_index, use_web_search) ==
    [officer_id |-> officer_id, role_index |-> role_index,
     use_web_search |-> use_web_search,
     pc |-> "created", raised_by |-> None, http |-> None,
     system_content |-> <<>>,
     result |-> PlainResult(officer_id, "text")]

\* bot.py 454-470 and 563-592: the request is built and sent.  A client that
\* was closed refuses it, which the try block of the query catches.
Post(task, memory_context) ==
    LET web_search_active ==
            /\ task.use_web_search
            /\ model_supports_web_search(OFFICERS[task.officer_id].model)
        built == [task EXCEPT !.system_content =
                     SystemContent(task.role_index, web_search_active, memory_context)]
    IN IF client = "closed"
       THEN [built EXCEPT
                !.pc = "returned",
                !.http = "client_closed",
                !.result = IF task.role_index = NoRole
                           THEN PlainResult(task.officer_id, "client_closed")
                           ELSE ResearchResult(task.officer_id, task.role_index,
                                               task.use_web_search, "client_closed")]
       ELSE [built EXCEPT !.pc = "awaiting_http"]

\* bot.py 444-447 and 536-539: up to the first await of the query
Begin(task, channel_id) ==
    IF FalsyId(channel_id) THEN Post(task, <<>>) ELSE [task EXCEPT !.pc = "loading"]

\* A query whose try block does not catch what the request raises
AfterHttpUncaught(task, outcome) ==
    IF outcome \in HttpErrors
    THEN [task EXCEPT !.pc = "raised", !.raised_by = "http", !.http = outcome]
    ELSE [task EXCEPT
             !.pc = "returned",
             !.http = outcome,
             !.result = IF task.role_index = NoRole
                        THEN PlainResult(task.officer_id, outcome)
                        ELSE ResearchResult(task.officer_id, task.role_index,
                                            task.use_web_search, outcome)]

\* bot.py 464-496 and 586-638: the try block around the request and the
\* parsing returns a dict whatever happens in it
AfterHttp(task, outcome) ==
    [task EXCEPT
        !.pc = "returned",
        !.http = outcome,
        !.result = IF task.role_index = NoRole
                   THEN PlainResult(task.officer_id, outcome)
                   ELSE ResearchResult(task.officer_id, task.role_index,
                                       task.use_web_search, outcome)]

\* bot.py 647: the council needs exactly four officers
CouncilSizeAtLeastFour(officer_ids) == Len(officer_ids) >= 4

CouncilSizeOk(officer_ids) == Len(officer_ids) = 4

Posted(ts) == Cardinality({k \in 1..Len(ts) : ts[k].pc = "awaiting_http"})

\* The arguments the callers pass
FilterArgs == {None, "tactical", "SUPPORT", "strategic"}
ChannelArgs == {NoChannel, 1}

\* bot.py 509-514 and 650-657: the client is opened, the queries are created
\* and gather starts them in order; each runs up to its first await
Dispatch(officer_ids, with_roles, channel_id, use_web_search) ==
    /\ tasks' = [k \in 1..Len(officer_ids) |->
                    Begin(NewTask(officer_ids[k],
                                  IF with_roles THEN k - 1 ELSE NoRole,
                                  use_web_search), channel_id)]
    /\ client' = "open"
    /\ orch' = "gathering"
    /\ requests' = Posted(tasks')
    /\ UNCHANGED round_results

\* bot.py 499-516
QueryAllOfficers ==
    /\ orch = "idle"
    /\ \E capability_class \in FilterArgs, channel_id \in ChannelArgs :
          LET officer_ids == filter_officers_by_capability(capability_class)
          IN /\ call' = [name |-> "query_all_officers",
                         capability_class |-> capability_class,
                         channel_id |-> channel_id, use_web_search |-> FALSE]
             /\ IF officer_ids = <<>>
                THEN /\ orch' = "returned"
                     /\ round_results' = <<>>
                     /\ UNCHANGED <<client, tasks, requests>>
                ELSE Dispatch(officer_ids, FALSE, channel_id, FALSE)
    /\ UNCHANGED <<batchVars, dbVars, seedVars, txVars, cmdVars, roster>>

\* bot.py 641-659
QueryResearchCouncil ==
    /\ orch = "idle"
    /\ \E capability_class \in FilterArgs \ {None}, channel_id \in ChannelArgs,
          use_web_search \in BOOLEAN :
          LET officer_ids == filter_officers_by_capability(capability_class)
          IN /\ call' = [name |-> "query_research_council",
                         capability_class |-> capability_class,
                         channel_id |-> channel_id,
                         use_web_search |-> use_web_search]
             /\ IF ~CouncilSizeOk(officer_ids)
                THEN /\ orch' = "raised_ValueError"
                     /\ UNCHANGED <<client, tasks, requests, round_results>>
                ELSE Dispatch(SubSeq(officer_ids, 1, 4), TRUE, channel_id,
                              use_web_search)
    /\ UNCHANGED <<batchVars, dbVars, seedVars, txVars, cmdVars, roster>>

\* bot.py 447 and 539: load_officer_memory returns; the query goes on to
\* build and send its request
TaskMemoryLoaded ==
    /\ \E i \in 1..Len(tasks) :
          /\ tasks[i].pc = "loading"
          /\ tasks' = [tasks EXCEPT ![i] =
                Post(tasks[i], MemoryOf(call.channel_id, tasks[i].officer_id,
                                        DEFAULT_MAX_TOKENS))]
          /\ requests' = requests + (IF tasks'[i].pc = "awaiting_http" THEN 1 ELSE 0)
    /\ UNCHANGED <<batchVars, dbVars, seedVars, txVars, cmdVars, roster, call, orch, client, round_results>>

\* bot.py 447 and 539: load_officer_memory raises (the database cannot be
\* reached, a statement fails); the await is outside the try block
TaskMemoryLoadRaises ==
    /\ \E i \in 1..Len(tasks) :
          /\ tasks[i].pc = "loading"
          /\ tasks' = [tasks EXCEPT ![i] =
                [@ EXCEPT !.pc = "raised", !.raised_by = "load_officer_memory"]]
    /\ UNCHANGED <<batchVars, dbVars, seedVars, txVars, cmdVars, roster, call, orch, client, round_results,
                   requests>>

\* bot.py 465-496 and 587-638: the request completes, one way or another
TaskHttpCompletes ==
    /\ \E i \in 1..Len(tasks), outcome \in HttpOutcomes :
          /\ tasks[i].pc = "awaiting_http"
          /\ tasks' = [tasks EXCEPT ![i] = AfterHttp(tasks[i], outcome)]
    /\ UNCHANGED <<batchVars, dbVars, seedVars, txVars, cmdVars, roster, call, orch, client, round_results,
                   requests>>

\* bot.py 514-516 and 657-659: every query returned; gather gives their
\* results in dispatch order, the client is closed, the list is returned
GatherReturns ==
    /\ orch = "gathering"
    /\ \A i \in 1..Len(tasks) : tasks[i].pc = "returned"
    /\ round_results' = [i \in 1..Len(tasks) |-> tasks[i].result]
    /\ orch' = "returned"
    /\ client' = "closed"
    /\ UNCHANGED <<batchVars, dbVars, seedVars, txVars, cmdVars, roster, call, tasks, requests>>

\* bot.py 514 and 657: gather is called without return_exceptions, so the
\* first exception of a query is raised in the orchestrator at once; the
\* other queries are not cancelled; leaving the async with block closes the
\* client and the exception goes on to the caller
GatherRaises ==
    /\ orch = "gathering"
    /\ \E i \in 1..Len(tasks) : tasks[i].pc = "raised"
    /\ orch' = "raised"
    /\ client' = "closed"
    /\ UNCHANGED <<batchVars, dbVars, seedVars, txVars, cmdVars, roster, call, tasks, round_results, requests>>

\* The database a round reads: one channel, one note of O1 and one of O2 in
\* it, nothing of the other officers
RoundDb ==
    /\ channels = {[channel_id |-> 1, channel_name |-> "general"]}
    /\ missions = <<>>
    /\ responses = <<>>
    /\ notes = <<[id |-> 1, officer_id |-> "O1", channel_id |-> 1,
                  note_content |-> NoteText("O1", 1, 1), is_pinned |-> FALSE],
                 [id |-> 2, officer_id |-> "O2", channel_id |-> 1,
                  note_content |-> NoteText("O2", 1, 2), is_pinned |-> FALSE]>>
    /\ next_id = [mission |-> 1, response |-> 1, note |-> 3]
    /\ db_call = NoCall

RoundInit ==
    /\ BatchIdle
    /\ RestIdle
    /\ RoundDb
    /\ roster \in RosterSet
    /\ call = NoCall
    /\ orch = "idle"
    /\ client = "none"
    /\ tasks = <<>>
    /\ round_results = <<>>
    /\ requests = 0

RoundNext ==
    \/ QueryAllOfficers
    \/ QueryResearchCouncil
    \/ TaskMemoryLoaded
    \/ TaskMemoryLoadRaises
    \/ TaskHttpCompletes
    \/ GatherReturns
    \/ GatherRaises

SpecRound == RoundInit /\ [][RoundNext]_vars

(***************************************************************************)
(* The interaction handlers (bot.py 136-169, 243-285, 400-435, 776-1034).  *)
(* A handler is a coroutine; its steps are its awaits: the channel is      *)
(* ensured, the officers are queried, the mission is saved, the cards are  *)
(* sent.  One handler runs at a time here.  A view or modal object is as   *)
(* its constructor builds it from its arguments.  The round of a handler   *)
(* is taken by what it gives back: the list of the officers' results, in   *)
(* dispatch order, or the exception of a memory load.                      *)
(***************************************************************************)
HandlerNames == {"mission", "pivot", "continue", "research", "research_pivot"}

\* Handlers are started while fewer than MaxSaves missions are stored
MaxSaves == 1

\* The HTTP outcomes of a round of n queries: the first officer's answer is
\* any outcome, the others answer with a text
OutcomeLists(n) ==
    {[k \in 1..n |-> IF k = 1 THEN outcome ELSE "text"] : outcome \in HttpOutcomes}

\* bot.py 514-516 and 657-659: what gather returns
RoundResults(officer_ids, with_roles, use_web_search) ==
    {[k \in 1..Len(officer_ids) |->
         IF with_roles
         THEN ResearchResult(officer_ids[k], k - 1, use_web_search, outcomes[k])
         ELSE PlainResult(officer_ids[k], outcomes[k])] :
     outcomes \in OutcomeLists(Len(officer_ids))}

\* result["response"] as a text: an answer, a notice, an error message, the
\* empty string or None, with the disclaimer in front of it or not
ContentText(result, channel_id, k) ==
    IF result.response.kind = "empty" /\ result.response.message = None
    THEN NoneText
    ELSE Str(<<"resp", result.officer_id, channel_id, k>>,
             (CASE result.response.kind = "text" -> 5000
                [] result.response.kind = "error" -> 30
                [] result.response.kind = "empty" -> 0
                [] OTHER -> 150)
             + (IF result.response.disclaimer THEN 120 ELSE 0))

\* The results as save_mission and save_research_mission read them
SaveInput(results, channel_id, k) ==
    [j \in 1..Len(results) |->
        [officer_id |-> results[j].officer_id,
         response |-> ContentText(results[j], channel_id, k),
         success |-> results[j].success,
         error |-> results[j].error]]

\* The lengths of the brief or topic a user types (the option has no
\* max_length, bot.py 776 and 861) and of a pivot instruction (max_length
\* 2000, bot.py 126 and 391)
BriefLens == {400, 5000}
InstructionLens == {2000}

\* bot.py 827: result["response"][:4096]; bot.py 911: [:3900]
DESCRIPTION_CAP == 4096
RESEARCH_RESPONSE_CAP == 3900

\* len of "**[O1 - title]** . model" and the two line breaks after it
\* (bot.py 911), for the titles and model names of the roster
TitleLineLen(officer_id) == 16 + 7 + 20

\* The description of the header card: bot.py 810 (mission) and 264
\* (continue) the brief; 140 and 147 (pivot) the brief, the 13 characters
\* of the PIVOT mark and the instruction; 900 (research) the topic between
\* literals of 128 or 126 characters; 403 and 412 (research pivot) the topic,
\* " [PIVOT: ", the instruction and "]" between literals of 97 characters
HeaderDescriptionLen(name, brief_len, instruction_len, use_web_search) ==
    CASE name \in {"mission", "continue"} -> brief_len
      [] name = "pivot" -> brief_len + 13 + instruction_len
      [] name = "research" -> (IF use_web_search THEN 128 ELSE 126) + brief_len
      [] OTHER -> 97 + brief_len + 10 + instruction_len

\* The description of the card of one result: bot.py 154, 271 and 827 the
\* response cut at 4096; 423 and 911 the title line and the response cut
\* at 3900
CardDescriptionLen(name, result, response) ==
    IF name \in {"mission", "pivot", "continue"}
    THEN Slice(response, DESCRIPTION_CAP).len
    ELSE TitleLineLen(result.officer_id) + Slice(response, RESEARCH_RESPONSE_CAP).len

NewCmd(name, channel_id, capability_class, use_web_search) ==
    [name |-> name, pc |-> IF name \in {"mission", "research"} THEN "ensure" ELSE "query",
     channel_id |-> channel_id, capability_class |-> capability_class,
     use_web_search |-> use_web_search, officer_id |-> None,
     brief_len |-> 0, instruction_len |-> 0,
     results |-> <<>>, reply |-> "none", cards |-> 0, descriptions |-> <<>>,
     view |-> FALSE, escaped |-> None, missions_before |-> Len(missions)]

\* bot.py 137, 246, 401, 778, 866: the interaction is deferred.  The
\* research handlers are given a class, the others a class or None.
CmdBegin ==
    /\ cmd.pc = "done"
    /\ Len(missions) < MaxSaves
    /\ \E name \in HandlerNames, channel_id \in Channels,
          capability_class \in FilterArgs, use_web_search \in BOOLEAN :
          /\ name \in {"research", "research_pivot"} => capability_class # None
          /\ name \notin {"research", "research_pivot"} => ~use_web_search
          /\ \E brief_len \in BriefLens, instruction_len \in InstructionLens \cup {0} :
                /\ instruction_len # 0 <=> name \in {"pivot", "research_pivot"}
                /\ cmd' = [NewCmd(name, channel_id, capability_class, use_web_search)
                              EXCEPT !.brief_len = brief_len,
                                     !.instruction_len = instruction_len]
    /\ UNCHANGED <<batchVars, dbVars, roundVars, seedVars, txVars, dialogs>>

\* bot.py 787 and 875
CmdEnsureChannel ==
    /\ cmd.pc = "ensure"
    /\ \E channel_name \in ChannelNames(cmd.channel_id) :
          ensure_channel_exists(cmd.channel_id, channel_name)
    /\ cmd' = [cmd EXCEPT !.pc = "query"]
    /\ UNCHANGED <<batchVars, roundVars, seedVars, txVars, dialogs>>

\* bot.py 144, 261 and 790: query_all_officers returns its list, or the
\* exception of a memory load leaves the handler
CmdQueryAll ==
    /\ cmd.pc = "query"
    /\ cmd.name \in {"mission", "pivot", "continue"}
    /\ LET officer_ids == filter_officers_by_capability(cmd.capability_class)
           next_pc == IF cmd.name = "mission" THEN "save" ELSE "send"
       IN \/ \E results \in RoundResults(officer_ids, FALSE, FALSE) :
                cmd' = [cmd EXCEPT !.results = results, !.pc = next_pc]
          \/ /\ officer_ids # <<>>
             /\ cmd' = [cmd EXCEPT !.escaped = "load_officer_memory", !.pc = "done"]
    /\ UNCHANGED <<batchVars, dbVars, roundVars, seedVars, txVars, dialogs>>

\* bot.py 877-882: research answers the ValueError of the council with a
\* message and returns; bot.py 405-407: the pivot modal calls the council
\* outside any try block
OnCouncilRejection(name) ==
    IF name = "research"
    THEN [reply |-> "rejected", escaped |-> None]
    ELSE [reply |-> "none", escaped |-> "ValueError"]

\* bot.py 405-407 and 877-882
CmdQueryCouncil ==
    /\ cmd.pc = "query"
    /\ cmd.name \in {"research", "research_pivot"}
    /\ LET officer_ids == filter_officers_by_capability(cmd.capability_class)
           next_pc == IF cmd.name = "research" THEN "save" ELSE "send"
       IN IF ~CouncilSizeOk(officer_ids)
          THEN cmd' = [cmd EXCEPT !.reply = OnCouncilRejection(cmd.name).reply,
                                  !.escaped = OnCouncilRejection(cmd.name).escaped,
                                  !.pc = "done"]
          ELSE \/ \E results \in RoundResults(SubSeq(officer_ids, 1, 4), TRUE,
                                               cmd.use_web_search) :
                     cmd' = [cmd EXCEPT !.results = results, !.pc = next_pc]
               \/ cmd' = [cmd EXCEPT !.escaped = "load_officer_memory", !.pc = "done"]
    /\ UNCHANGED <<batchVars, dbVars, roundVars, seedVars, txVars, dialogs>>

\* bot.py 793 and 891-894: an exception of the save leaves the handler
CmdSave ==
    /\ cmd.pc = "save"
    /\ LET officer_responses == SaveInput(cmd.results, cmd.channel_id, next_id.mission)
           brief == Str(BriefText(cmd.channel_id, next_id.mission).id, cmd.brief_len)
       IN IF cmd.name = "mission"
          THEN save_mission(cmd.channel_id, brief, officer_responses)
          ELSE save_research_mission(cmd.channel_id, brief, officer_responses)
    /\ cmd' = IF db_call'.raised
              THEN [cmd EXCEPT !.escaped = db_call'.exception, !.pc = "done"]
              ELSE [cmd EXCEPT !.pc = "send"]
    /\ UNCHANGED <<batchVars, roundVars, seedVars, txVars, dialogs>>

\* bot.py 146-169, 263-285, 409-435, 795-842 and 896-923: mission answers an
\* empty list with a message; otherwise a header card and one card per
\* result are built, response[:4096] of a response that is None being a
\* TypeError, and handed to send_embeds_in_batches with a new view
CmdSend ==
    /\ cmd.pc = "send"
    /\ cmd' = IF cmd.name = "mission" /\ cmd.results = <<>>
              THEN [cmd EXCEPT !.reply = "no_officers", !.pc = "done"]
              ELSE IF \E j \in 1..Len(cmd.results) :
                         IsNone(ContentText(cmd.results[j], cmd.channel_id, 0))
              THEN [cmd EXCEPT !.escaped = "TypeError", !.pc = "done"]
              ELSE [cmd EXCEPT
                       !.reply = "cards", !.cards = 1 + Len(cmd.results),
                       !.descriptions =
                           <<HeaderDescriptionLen(cmd.name, cmd.brief_len,
                                                  cmd.instruction_len, cmd.use_web_search)>>
                           \o [j \in 1..Len(cmd.results) |->
                                  CardDescriptionLen(cmd.name, cmd.results[j],
                                      ContentText(cmd.results[j], cmd.channel_id, 0))],
                       !.view = TRUE, !.pc = "done"]
    /\ UNCHANGED <<batchVars, dbVars, roundVars, seedVars, txVars, dialogs>>

\* The officer_id and note options of /memory add
OfficerArgs == {None, "O1", "O9"}

\* bot.py 1005-1019: /memory add; the note is written for the channel of
\* the interaction, whose row the handler does not ensure
CmdMemoryAdd ==
    /\ cmd.pc = "done"
    /\ next_id.note <= MaxNotes
    /\ \E channel_id \in Channels, officer_id \in OfficerArgs, note \in BOOLEAN :
          LET this == [NewCmd("memory_add", channel_id, None, FALSE) EXCEPT
                          !.officer_id = officer_id, !.pc = "done"]
          IN IF Falsy(officer_id) \/ ~note
             THEN /\ cmd' = [this EXCEPT !.reply = "please_specify"]
                  /\ UNCHANGED dbVars
             ELSE IF officer_id \notin DOMAIN OFFICERS
             THEN /\ cmd' = [this EXCEPT !.reply = "invalid_officer"]
                  /\ UNCHANGED dbVars
             ELSE /\ add_manual_note(channel_id, officer_id,
                                     NoteText(officer_id, channel_id, next_id.note))
                  /\ cmd' = IF db_call'.raised
                            THEN [this EXCEPT !.escaped = db_call'.exception]
                            ELSE [this EXCEPT !.reply = "added"]
    /\ UNCHANGED <<batchVars, roundVars, seedVars, txVars, dialogs>>

\* The bot process was started: setup_hook has not run, no interaction is
\* delivered before it has
Starting == [name |-> "none", pc |-> "setup"]

\* bot.py 34-38: the entry of an officer in the roster file
RosterEntry(officer_id) ==
    [title |-> OFFICERS[officer_id].title,
     model |-> OFFICERS[officer_id].model,
     capability_class |-> OFFICERS[officer_id].capability_class,
     specialty |-> <<"specialty", officer_id>>,
     system_prompt |-> <<"prompt", officer_id>>]

\* list(OFFICERS): the keys in the order of the file
RosterKeys ==
    LET ids == <<"O1", "O2", "O3", "O4", "O5", "O6">>
    IN SelectRows(ids, {k \in 1..Len(ids) : ids[k] \in DOMAIN OFFICERS}, 1)

\* bot.py 108-114: setup_hook seeds the officers table from the roster
\* before the client connects and takes commands
CmdSetupHook ==
    /\ cmd.pc = "setup"
    /\ seed_officers(RosterKeys, [o \in DOMAIN OFFICERS |-> RosterEntry(o)])
    /\ cmd' = NoCmd
    /\ UNCHANGED <<batchVars, roundVars, txVars, dialogs>>

\* The roster files a start of the bot finds: the first one, and one that
\* has lost the Support officer and the officer that was not active
StartRosters ==
    { [officers |-> OfficersTacticalAndSupport,
       active_roster |-> <<"O1", "O2", "O3", "O4", "O5">>],
      [officers |-> [o \in {"O1", "O2", "O3", "O4"} |-> OfficersTacticalAndSupport[o]],
       active_roster |-> <<"O1", "O2", "O3", "O4">>] }

\* bot.py 31-38 and 117: the process is stopped between two commands and
\* started again; the module reads the roster file anew, the database
\* stays, the views of the old process are gone
CmdRestart ==
    /\ cmd.pc = "done"
    /\ cmd.name # "none"
    /\ roster' \in StartRosters
    /\ cmd' = Starting
    /\ dialogs' = {}
    /\ UNCHANGED <<batchVars, dbVars, seedVars, txVars, call, orch, client, tasks,
                   round_results, requests>>

\* A clear that deletes at once and asks nothing
ClearWithoutConfirmation ==
    /\ cmd.pc = "done"
    /\ \E channel_id \in Channels, officer_id \in OfficerArgs \ {None} :
          /\ clear_officer_memory(channel_id, officer_id)
          /\ cmd' = [NewCmd("memory_clear", channel_id, None, FALSE) EXCEPT
                         !.officer_id = officer_id, !.pc = "done", !.reply = "cleared"]
    /\ UNCHANGED <<batchVars, roundVars, seedVars, txVars, dialogs>>

\* bot.py 1021-1034: /memory clear; the officer id is validated and a
\* ConfirmClearView for the pair is sent, nothing is deleted
CmdMemoryClear ==
    /\ cmd.pc = "done"
    /\ \E channel_id \in Channels, officer_id \in OfficerArgs :
          LET this == [NewCmd("memory_clear", channel_id, None, FALSE) EXCEPT
                          !.officer_id = officer_id, !.pc = "done"]
          IN IF Falsy(officer_id)
             THEN /\ cmd' = [this EXCEPT !.reply = "please_specify"]
                  /\ UNCHANGED dialogs
             ELSE IF officer_id \notin DOMAIN OFFICERS
             THEN /\ cmd' = [this EXCEPT !.reply = "invalid_officer"]
                  /\ UNCHANGED dialogs
             ELSE /\ cmd' = [this EXCEPT !.reply = "confirm_prompt", !.view = TRUE]
                  /\ dialogs' = dialogs \cup {[channel_id |-> channel_id,
                                                officer_id |-> officer_id]}
    /\ UNCHANGED <<batchVars, dbVars, roundVars, seedVars, txVars>>

\* bot.py 933-936: the confirm button of an open dialog is pressed; the
\* notes of the dialog's pair are deleted; the view stays until it lapses
ConfirmClearView_confirm ==
    /\ cmd.pc = "done"
    /\ \E d \in dialogs :
          /\ clear_officer_memory(d.channel_id, d.officer_id)
          /\ cmd' = [NewCmd("confirm", d.channel_id, None, FALSE) EXCEPT
                         !.officer_id = d.officer_id, !.pc = "done", !.reply = "cleared"]
    /\ UNCHANGED <<batchVars, roundVars, seedVars, txVars, dialogs>>

\* bot.py 938-940: the cancel button answers and does nothing else
ConfirmClearView_cancel ==
    /\ cmd.pc = "done"
    /\ \E d \in dialogs :
          cmd' = [NewCmd("cancel", d.channel_id, None, FALSE) EXCEPT
                     !.officer_id = d.officer_id, !.pc = "done", !.reply = "cancelled"]
    /\ UNCHANGED <<batchVars, dbVars, roundVars, seedVars, txVars, dialogs>>

\* bot.py 930: timeout=30; the view stops taking presses
ConfirmClearView_timeout ==
    /\ \E d \in dialogs : dialogs' = dialogs \ {d}
    /\ UNCHANGED <<batchVars, dbVars, roundVars, seedVars, txVars, cmd>>

\* Both channels are known (a mission ran in each)
MemInit ==
    /\ BatchIdle
    /\ RoundIdle
    /\ RestIdle
    /\ channels = {[channel_id |-> 1, channel_name |-> "general"],
                   [channel_id |-> 2, channel_name |-> "research"]}
    /\ missions = <<>>
    /\ responses = <<>>
    /\ notes = <<>>
    /\ next_id = [mission |-> 1, response |-> 1, note |-> 1]
    /\ db_call = NoCall

MemNext ==
    \/ CmdMemoryAdd
    \/ CmdMemoryClear
    \/ ConfirmClearView_confirm
    \/ ConfirmClearView_cancel
    \/ ConfirmClearView_timeout

SpecMem == MemInit /\ [][MemNext]_vars

CmdInit ==
    /\ BatchIdle
    /\ RoundIdle
    /\ DbEmpty
    /\ officer_rows = <<>>
    /\ sessions = <<>>
    /\ cmd = Starting
    /\ dialogs = {}

CmdNext ==
    \/ CmdSetupHook
    \/ CmdBegin
    \/ CmdEnsureChannel
    \/ CmdQueryAll
    \/ CmdQueryCouncil
    \/ CmdSave
    \/ CmdSend
    \/ CmdMemoryAdd

SpecCmd == CmdInit /\ [][CmdNext]_vars

StartNext == CmdNext \/ CmdRestart

SpecStart == CmdInit /\ [][StartNext]_vars

(***************************************************************************)
(* Cards.  A card is a discord.Embed reduced to the lengths of the texts   *)
(* calculate_embed_size reads: title, description, footer text, author     *)
(* name and the (name, value) pairs of its fields.  Length 0 stands for an *)
(* absent (None) or empty text.                                            *)
(***************************************************************************)
MaxCards == 3

Card(t, d, f, a, fs) ==
    [title |-> t, description |-> d, footer |-> f, author |-> a, fields |-> fs]

StatusFields == <<<<5, 9>>, <<9, 20>>, <<6, 10>>>>

CardSet ==
    { Card(0, 0, 0, 0, <<>>),                     \* nothing but a colour: size 0
      Card(40, 1200, 30, 0, <<>>),                \* a header card: 1270
      Card(0, 1285, 0, 0, <<>>),                  \* 1285: fills 4215 up to 5500
      Card(60, 2600, 0, 0, StatusFields),         \* 2719
      Card(60, 4096, 0, 0, StatusFields),         \* 4215
      Card(256, 4096, 0, 100, <<<<256, 1024>>>>)  \* 5732: alone above the ceiling
    }

MAX_EMBED_SIZE == 5500

RECURSIVE FieldsSize(_)
FieldsSize(fs) ==
    IF fs = <<>> THEN 0
    ELSE Head(fs)[1] + Head(fs)[2] + FieldsSize(Tail(fs))

calculate_embed_size(embed) ==
    (IF embed.title > 0 THEN embed.title ELSE 0)
    + (IF embed.description > 0 THEN embed.description ELSE 0)
    + (IF embed.footer > 0 THEN embed.footer ELSE 0)
    + (IF embed.author > 0 THEN embed.author ELSE 0)
    + FieldsSize(embed.fields)

\* bot.py 740: the condition that sends the current batch before the card
NeedsFlushNoBatchTest(size, embed_size, batch) ==
    size + embed_size > MAX_EMBED_SIZE

NeedsFlush(size, embed_size, batch) ==
    size + embed_size > MAX_EMBED_SIZE /\ batch # <<>>

\* bot.py 743-746: the batch after the (possible) flush and the append
BatchAfterDropsCard(batch, flushed, i) ==
    IF flushed THEN <<>> ELSE Append(batch, i)

BatchAfter(batch, flushed, i) ==
    Append(IF flushed THEN <<>> ELSE batch, i)

\* bot.py 742: an intermediate message carries no view
FlushMessage(batch) == [embeds |-> batch, view |-> FALSE]

\* bot.py 751-754: the last message carries the view when there is one
FinalMessageNoView(batch, v) == [embeds |-> batch, view |-> FALSE]

FinalMessage(batch, v) == [embeds |-> batch, view |-> v]

BatchInit ==
    /\ DbEmpty
    /\ RestIdle
    /\ RoundIdle
    /\ embeds \in SeqsUpTo(CardSet, MaxCards)
    /\ view \in BOOLEAN
    /\ idx = 1
    /\ current_batch = <<>>
    /\ current_size = 0
    /\ sent = <<>>
    /\ bpc = "loop"

\* One iteration of the for loop (bot.py 736-747)
BatchIterate ==
    /\ bpc = "loop"
    /\ idx <= Len(embeds)
    /\ LET embed_size == calculate_embed_size(embeds[idx])
           flushed == NeedsFlush(current_size, embed_size, current_batch)
       IN /\ sent' = IF flushed THEN Append(sent, FlushMessage(current_batch))
                     ELSE sent
          /\ current_batch' = BatchAfter(current_batch, flushed, idx)
          /\ current_size' = (IF flushed THEN 0 ELSE current_size) + embed_size
    /\ idx' = idx + 1
    /\ UNCHANGED <<embeds, view, bpc, dbVars, roundVars,
                   seedVars, txVars, cmdVars>>

\* After the loop (bot.py 749-754)
BatchFinish ==
    /\ bpc = "loop"
    /\ idx > Len(embeds)
    /\ sent' = IF current_batch # <<>>
               THEN Append(sent, FinalMessage(current_batch, view))
               ELSE sent
    /\ bpc' = "done"
    /\ UNCHANGED <<embeds, view, idx, current_batch, current_size, dbVars, roundVars,
                   seedVars, txVars, cmdVars>>

BatchNext == BatchIterate \/ BatchFinish

SpecBatch == BatchInit /\ [][BatchNext]_vars

(***************************************************************************)
(* Claims about send_embeds_in_batches                                     *)
(***************************************************************************)
SentCards == Flatten([k \in 1..Len(sent) |-> sent[k].embeds])

MessageSize(m) ==
    SumSeq([k \in 1..Len(m.embeds) |-> calculate_embed_size(embeds[m.embeds[k]])])

\* C4: when send_embeds_in_batches has finished, the cards of the messages
\* it sent, concatenated in send order, are exactly the input cards
\* embeds[1], ..., embeds[n] in input order: none lost, reordered or sent
\* twice.  While it runs, the sent cards followed by the pending batch are
\* the cards consumed so far.
C4_BatchesReproduceInput ==
    /\ bpc = "loop" => SentCards \o current_batch = [k \in 1..(idx - 1) |-> k]
    /\ bpc = "done" => SentCards = [k \in 1..Len(embeds) |-> k]

C4_Witness ==
    /\ bpc = "done"
    /\ Len(embeds) = 3
    /\ Len(sent) = 2
    /\ Len(sent[1].embeds) = 2

\* C5: every message sent carries at least one card, and its aggregate size
\* is at most MAX_EMBED_SIZE unless it holds a single card that alone is
\* larger than MAX_EMBED_SIZE.
C5_BatchWithinCeiling ==
    \A k \in 1..Len(sent) :
        /\ sent[k].embeds # <<>>
        /\ \/ MessageSize(sent[k]) <= MAX_EMBED_SIZE
           \/ /\ Len(sent[k].embeds) = 1
              /\ calculate_embed_size(embeds[sent[k].embeds[1]]) > MAX_EMBED_SIZE

C5_Witness ==
    /\ bpc = "done"
    /\ \E k \in 1..Len(sent) : MessageSize(sent[k]) > MAX_EMBED_SIZE
    /\ \E k \in 1..Len(sent) :
          Len(sent[k].embeds) = 2 /\ MessageSize(sent[k]) = MAX_EMBED_SIZE

\* C6: no message but the last one sent carries the view; when the call has
\* finished with a non-empty input and a view, the last message carries it;
\* with an empty input nothing is sent.
C6_ViewOnLastMessageOnly ==
    /\ \A k \in 1..Len(sent) : sent[k].view => (k = Len(sent) /\ bpc = "done")
    /\ (bpc = "done" /\ embeds # <<>> /\ view) => (sent # <<>> /\ sent[Len(sent)].view)
    /\ (bpc = "done" /\ embeds = <<>>) => sent = <<>>

C6_Witness ==
    /\ bpc = "done"
    /\ view
    /\ Len(sent) = 3
    /\ sent[3].view

(***************************************************************************)
(* Claims about the persistence operations                                 *)
(***************************************************************************)
\* The texts a completed load_officer_memory call returned pieces of
LoadedIds ==
    IF db_call.name = "load_officer_memory"
    THEN {db_call.returned[k].id : k \in 1..Len(db_call.returned)}
    ELSE {}

\* C7: after any sequence of add_manual_note, save_mission,
\* save_research_mission and clear_officer_memory calls, the text
\* load_officer_memory(c, o) returns holds notes written for the pair (o, c)
\* only, answers officer o gave to missions of channel c only and briefs of
\* missions of channel c only.
C7_MemoryIsolatedPerPair ==
    \A id \in LoadedIds :
        /\ id[1] = "note" => (id[2] = db_call.officer_id /\ id[3] = db_call.channel_id)
        /\ id[1] = "resp" => (id[2] = db_call.officer_id /\ id[3] = db_call.channel_id)
        /\ id[1] = "brief" => id[2] = db_call.channel_id

C7_Witness ==
    /\ db_call.name = "load_officer_memory"
    /\ db_call.officer_id = "O1" /\ db_call.channel_id = 1
    /\ \E id \in LoadedIds : id[1] = "note"
    /\ \E id \in LoadedIds : id[1] = "resp"
    /\ \E k \in 1..Len(notes) : notes[k].officer_id = "O1" /\ notes[k].channel_id = 2
    /\ \E k \in 1..Len(responses) :
          /\ responses[k].officer_id = "O1" /\ responses[k].success
          /\ MissionById(responses[k].mission_id).channel_id = 2

\* C8: the text load_officer_memory returns holds the content of no response
\* row whose success flag is false; every answer in it is the content of a
\* row stored with success true.
C8_NoFailedResponseInMemory ==
    /\ \A k \in 1..Len(responses) :
          ~responses[k].success => responses[k].response_content.id \notin LoadedIds
    /\ \A id \in LoadedIds :
          id[1] = "resp" =>
              \E k \in 1..Len(responses) :
                  responses[k].response_content.id = id /\ responses[k].success = TRUE

C8_Witness ==
    /\ db_call.name = "load_officer_memory"
    /\ \E id \in LoadedIds : id[1] = "resp"
    /\ \E k \in 1..Len(responses) :
          /\ ~responses[k].success
          /\ responses[k].officer_id = db_call.officer_id
          /\ MissionById(responses[k].mission_id).channel_id = db_call.channel_id

\* C9: a clear_officer_memory(c, o) call completes without error, removes
\* exactly the manual notes of the pair (o, c) and leaves every other note,
\* every mission row, every response row and every channel row as it was.
C9_ClearRemovesOnlyThePairsNotes ==
    [][(db_call'.name = "clear_officer_memory" /\ dbVars' # dbVars) =>
          /\ ~db_call'.raised
          /\ notes' = Without(notes,
                              {k \in 1..Len(notes) :
                                  /\ notes[k].officer_id = db_call'.officer_id
                                  /\ notes[k].channel_id = db_call'.channel_id}, 1)
          /\ missions' = missions
          /\ responses' = responses
          /\ channels' = channels]_vars

C9_Witness ==
    /\ db_call.name = "clear_officer_memory"
    /\ next_id.note = 3
    /\ Len(notes) = 1
    /\ notes[1].officer_id = db_call.officer_id
    /\ notes[1].channel_id # db_call.channel_id
    /\ \E k \in 1..Len(responses) : responses[k].officer_id = db_call.officer_id

(***************************************************************************)
(* Claims about the officer queries and the fan-out rounds                 *)
(***************************************************************************)
\* The officers of the active roster whose class is the filter, compared
\* without regard to case, in roster order; the whole roster without filter
Resolved(capability_class) ==
    IF capability_class \in {None, ""} THEN roster.active_roster
    ELSE SelectRows(roster.active_roster,
                    {k \in 1..Len(roster.active_roster) :
                        Lower(roster.officers[roster.active_roster[k]].capability_class)
                            = Lower(capability_class)}, 1)

Finished(task) == task.pc \in {"returned", "raised"}

\* C1: whatever the HTTP outcomes of the officers, query_all_officers does
\* not raise because of them (a query raises only out of its memory load,
\* which needs a channel_id), and the list it returns has exactly one result
\* per resolved officer, in the resolved order, each tagged success true or
\* false; when no officer matches it returns the empty list at once, having
\* created no query and sent no request.
C1_OneResultPerResolvedOfficer ==
    call.name = "query_all_officers" =>
        LET officer_ids == Resolved(call.capability_class)
        IN /\ \A i \in 1..Len(tasks) :
                 tasks[i].pc = "raised" => tasks[i].raised_by = "load_officer_memory"
           /\ orch = "raised" => ~FalsyId(call.channel_id)
           /\ orch = "returned" =>
                 /\ Len(round_results) = Len(officer_ids)
                 /\ \A i \in 1..Len(officer_ids) :
                       /\ round_results[i].officer_id = officer_ids[i]
                       /\ round_results[i].success \in BOOLEAN
           /\ officer_ids = <<>> =>
                 /\ orch = "returned"
                 /\ round_results = <<>>
                 /\ tasks = <<>>
                 /\ requests = 0
                 /\ client = "none"

C1_Witness ==
    /\ call.name = "query_all_officers"
    /\ call.capability_class = None
    /\ orch = "returned"
    /\ Len(round_results) = 5
    /\ round_results[1].success
    /\ round_results[2].response.message = "network_error"
    /\ round_results[3].response.message = "status_error"
    /\ round_results[4].response.message = "malformed_body"
    /\ round_results[5].success

\* C2: in a fan-out round, whichever step of one officer's query fails (the
\* memory load, the HTTP call, the parsing), the other queries are not
\* affected (none is refused by a client closed under it), and the
\* orchestrator neither returns nor raises to its caller before every
\* dispatched query has finished.
C2_RoundWaitsForEveryQuery ==
    /\ orch \in {"returned", "raised"} => \A i \in 1..Len(tasks) : Finished(tasks[i])
    /\ \A i \in 1..Len(tasks) :
          tasks[i].pc = "returned" => tasks[i].result.response.message # "client_closed"

\* C3: query_officer and query_officer_with_research_role never raise for an
\* officer of the roster: whatever the memory load, the HTTP call and the
\* parsing do, the query ends by returning a result, which is tagged
\* success false and carries the exception's message when something failed.
C3_QueryNeverRaises ==
    \A i \in 1..Len(tasks) :
        /\ tasks[i].pc # "raised"
        /\ (tasks[i].pc = "returned" /\ tasks[i].result.response.kind = "error") =>
              (~tasks[i].result.success /\ tasks[i].result.response.message \in HttpErrors)

\* The number of active-roster officers of the class
MatchCount(capability_class) ==
    Cardinality({k \in 1..Len(roster.active_roster) :
                    Lower(roster.officers[roster.active_roster[k]].capability_class)
                        = Lower(capability_class)})

\* C10: query_research_council raises the ValueError if and only if the
\* number of active-roster officers of the capability class is not 4, and
\* when it raises it has created no query, opened no client and sent no
\* request.
C10_ResearchNeedsExactlyFour ==
    call.name = "query_research_council" =>
        /\ orch = "raised_ValueError" <=> MatchCount(call.capability_class) # 4
        /\ orch = "raised_ValueError" =>
              (tasks = <<>> /\ requests = 0 /\ client = "none")

C10_Witness ==
    /\ call.name = "query_research_council"
    /\ orch = "raised_ValueError"
    /\ MatchCount(call.capability_class) = 5

\* The positions of the active roster whose officer is of the class
MatchingPositions(capability_class) ==
    {k \in 1..Len(roster.active_roster) :
        Lower(roster.officers[roster.active_roster[k]].capability_class)
            = Lower(capability_class)}

\* The n-th matching position, counted from the front of the roster
NthMatch(capability_class, n) ==
    CHOOSE m \in MatchingPositions(capability_class) :
        Cardinality({j \in MatchingPositions(capability_class) : j < m}) = n - 1

\* C11: filter_officers_by_capability returns the whole active roster, in
\* roster order, for no filter (None or the empty string); for a class it
\* returns the officers at the matching positions of the active roster
\* (class compared without regard to case), each once, in roster order, so
\* never an officer that is not on the active roster, and the empty list for
\* a class no active officer has.  The queries an orchestrator dispatches
\* are for exactly these officers, in this order.
C11_FilterKeepsRosterOrder ==
    /\ \A f \in FilterArgs \cup {"", "Tactical", "support"} :
          LET r == filter_officers_by_capability(f)
          IN IF f \in {None, ""} THEN r = roster.active_roster
             ELSE /\ Len(r) = Cardinality(MatchingPositions(f))
                  /\ \A n \in 1..Len(r) : r[n] = roster.active_roster[NthMatch(f, n)]
    /\ orch = "gathering" =>
          /\ Len(tasks) = IF call.capability_class = None
                          THEN Len(roster.active_roster)
                          ELSE Cardinality(MatchingPositions(call.capability_class))
          /\ \A n \in 1..Len(tasks) :
                tasks[n].officer_id =
                    IF call.capability_class = None THEN roster.active_roster[n]
                    ELSE roster.active_roster[NthMatch(call.capability_class, n)]

C11_Witness ==
    /\ call.name = "query_all_officers"
    /\ call.capability_class = "SUPPORT"
    /\ orch = "gathering"
    /\ Len(tasks) = 1
    /\ tasks[1].officer_id = "O5"
    /\ roster.officers["O6"].capability_class = "Tactical"
    /\ filter_officers_by_capability("tactical") = <<"O1", "O2", "O3", "O4">>
    /\ filter_officers_by_capability("strategic") = <<>>

\* C12: when the HTTP call of an officer query succeeds and the first
\* choice carries empty or null content, or a tool call instead of a text,
\* the response of the result is a non-empty placeholder written by the
\* query function, in the plain query as in the research-role query.
C12_PlaceholderForEmptyContent ==
    \A i \in 1..Len(tasks) :
        (tasks[i].pc = "returned" /\ tasks[i].http \in {"empty", "tool_call"}) =>
            /\ Truthy(tasks[i].result.response)
            /\ tasks[i].result.response.kind \in {"tool_call_notice", "empty_notice"}

\* C16: an ensure_channel_exists call never fails and touches no table but
\* channels; when no row has the identifier it adds one row, with the
\* identifier and the name given, and commits; when a row has it (as at a
\* second call) it adds no row, changes no stored row, whatever name it was
\* given, and does not commit.
C16_EnsureChannelInsertsIffAbsent ==
    [][db_call'.name = "ensure_channel_exists" =>
          /\ ~db_call'.raised
          /\ <<missions, responses, notes, next_id>>' = <<missions, responses, notes, next_id>>
          /\ IF \E row \in channels : row.channel_id = db_call'.channel_id
             THEN channels' = channels /\ ~db_call'.committed
             ELSE /\ channels' = channels \cup
                                    {[channel_id |-> db_call'.channel_id,
                                      channel_name |-> db_call'.channel_name]}
                  /\ db_call'.committed]_vars

C16_Witness ==
    /\ db_call.name = "ensure_channel_exists"
    /\ ~db_call.committed
    /\ db_call.channel_name = "war-room"
    /\ [channel_id |-> db_call.channel_id, channel_name |-> "general"] \in channels
    /\ Cardinality(channels) = 2

\* C18: every stored mission row holds as its brief the first
\* min(length, 1000) characters of the brief save_mission or
\* save_research_mission was given, and every stored response row the first
\* min(length, 2000) characters of the response of the officer result.
C18_StoredTextsAreCappedPrefixes ==
    /\ \A k \in 1..Len(missions) :
          LET supplied == BriefText(missions[k].channel_id, missions[k].id)
          IN /\ missions[k].mission_brief.id = supplied.id
             /\ missions[k].mission_brief.len =
                   IF supplied.len <= 1000 THEN supplied.len ELSE 1000
    /\ \A k \in 1..Len(responses) :
          LET supplied == ResponseText(responses[k].officer_id,
                                       MissionById(responses[k].mission_id).channel_id,
                                       responses[k].mission_id, responses[k].success)
          IN /\ responses[k].response_content.id = supplied.id
             /\ responses[k].response_content.len =
                   IF supplied.len <= 2000 THEN supplied.len ELSE 2000

C18_Witness ==
    /\ db_call.name = "save_research_mission"
    /\ Len(missions) = 2
    /\ missions[1].mission_brief.len = 1000
    /\ missions[2].mission_brief.len = 400
    /\ \E k \in 1..Len(responses) :
          responses[k].officer_id = "O1" /\ responses[k].response_content.len = 2000
    /\ \E k \in 1..Len(responses) : responses[k].response_content.len = 30

\* C19: load_officer_memory(c, o) returns the empty string when no manual
\* note is stored for the pair (o, c) and no response of o with success true
\* belongs to a mission of c, whatever is stored for other pairs and however
\* many failed responses the pair has.
C19_EmptyMemoryWithoutNotesAndSuccesses ==
    db_call.name = "load_officer_memory" =>
        LET pair_notes ==
                {k \in 1..Len(notes) :
                    /\ notes[k].officer_id = db_call.officer_id
                    /\ notes[k].channel_id = db_call.channel_id}
            pair_successes ==
                {k \in 1..Len(responses) :
                    /\ responses[k].officer_id = db_call.officer_id
                    /\ responses[k].success
                    /\ \E m \in 1..Len(missions) :
                          /\ missions[m].id = responses[k].mission_id
                          /\ missions[m].channel_id = db_call.channel_id}
        IN (pair_notes = {} /\ pair_successes = {}) =>
               (db_call.returned = <<>> /\ TextLen(db_call.returned) = 0)

C19_Witness ==
    /\ db_call.name = "load_officer_memory"
    /\ db_call.returned = <<>>
    /\ \E k \in 1..Len(responses) :
          /\ responses[k].officer_id = db_call.officer_id
          /\ ~responses[k].success
          /\ MissionById(responses[k].mission_id).channel_id = db_call.channel_id
    /\ \E k \in 1..Len(notes) :
          notes[k].officer_id = db_call.officer_id /\ notes[k].channel_id # db_call.channel_id
    /\ \E k \in 1..Len(notes) :
          notes[k].officer_id # db_call.officer_id /\ notes[k].channel_id = db_call.channel_id
    /\ \E k \in 1..Len(responses) :
          responses[k].officer_id # db_call.officer_id /\ responses[k].success

OwnResponses(j) ==
    [k \in 1..Len(sessions[j].officer_responses) |->
        [officer_id |-> sessions[j].officer_responses[k].officer_id,
         response_content |-> Slice(sessions[j].officer_responses[k].response, 2000),
         success |-> sessions[j].officer_responses[k].success]]

\* The response rows stored for mission id, without their ids
StoredResponses(id) ==
    LET rows == SelectRows(responses,
                           {k \in 1..Len(responses) : responses[k].mission_id = id}, 1)
    IN [k \in 1..Len(rows) |->
           [officer_id |-> rows[k].officer_id,
            response_content |-> rows[k].response_content,
            success |-> rows[k].success]]

\* C17: of save_mission calls that run concurrently for one stored channel,
\* none raises; the calls that have returned returned pairwise distinct
\* mission identifiers; there is exactly one mission row per returned call,
\* with the call's brief, and the response rows of that mission are exactly
\* the call's own; no other mission or response row is stored, and no two
\* rows of a table share an id.
C17_ConcurrentSavesDoNotInterfere ==
    LET done == {j \in 1..Len(sessions) : sessions[j].pc = "returned"}
    IN /\ \A j \in 1..Len(sessions) : sessions[j].pc # "raised"
       /\ \A i, j \in done : i # j => sessions[i].returned # sessions[j].returned
       /\ Len(missions) = Cardinality(done)
       /\ \A j \in done :
             /\ Cardinality({k \in 1..Len(missions) :
                                missions[k].id = sessions[j].returned}) = 1
             /\ \A k \in 1..Len(missions) :
                   missions[k].id = sessions[j].returned =>
                       /\ missions[k].channel_id = sessions[j].channel_id
                       /\ missions[k].mission_brief.id = sessions[j].mission_brief.id
             /\ StoredResponses(sessions[j].returned) = OwnResponses(j)
       /\ Len(responses) = SumSeq([j \in 1..Len(sessions) |->
                                     IF j \in done
                                     THEN Len(sessions[j].officer_responses) ELSE 0])
       /\ \A i, j \in 1..Len(responses) : i # j => responses[i].id # responses[j].id

\* Three calls have returned; the call created last committed first, and
\* the ids were handed out in another order than the calls were created
C17_Witness ==
    /\ Len(sessions) = 3
    /\ \A j \in 1..3 : sessions[j].pc = "returned"
    /\ missions[1].mission_brief.id = sessions[3].mission_brief.id
    /\ sessions[1].returned = 2
    /\ Len(responses) = 3

\* The model name of the officer holds the word, in any spelling of case
NameHas(officer_id, word) ==
    \E k \in 1..Len(roster.officers[officer_id].model) :
        Lower(roster.officers[officer_id].model[k]) = word

\* C21: in a research-role query whose HTTP call and parsing raised nothing,
\* the response starts with the web-search disclaimer if and only if web
\* search was requested and the officer's model name holds neither
\* "perplexity" nor both "google" and "gemini", compared without regard to
\* case; a text the model gave stays a success with the disclaimer.
C21_DisclaimerIffRequestedAndUnsupported ==
    call.name = "query_research_council" =>
        \A i \in 1..Len(tasks) :
            (tasks[i].pc = "returned" /\ tasks[i].http \in {"text", "empty", "tool_call"}) =>
                /\ tasks[i].result.response.disclaimer <=>
                      /\ call.use_web_search
                      /\ ~NameHas(tasks[i].officer_id, "perplexity")
                      /\ ~(NameHas(tasks[i].officer_id, "google")
                            /\ NameHas(tasks[i].officer_id, "gemini"))
                /\ tasks[i].http = "text" => tasks[i].result.success

\* O1 (anthropic) and O4 (google without gemini) carry the disclaimer, O2
\* (Perplexity) and O3 (google Gemini) do not
C21_Witness ==
    /\ call.name = "query_research_council"
    /\ call.use_web_search
    /\ orch = "returned"
    /\ \A i \in 1..4 : round_results[i].response.kind = "text"
    /\ round_results[1].response.disclaimer /\ round_results[1].success
    /\ ~round_results[2].response.disclaimer
    /\ ~round_results[3].response.disclaimer
    /\ round_results[4].response.disclaimer

\* The rows a call has left in the tables, found by their texts
MissionRowsOf(j) ==
    {k \in 1..Len(missions) : missions[k].mission_brief.id = sessions[j].mission_brief.id}

ResponseRowsOf(j) ==
    {k \in 1..Len(responses) :
        \E r \in 1..Len(sessions[j].officer_responses) :
            responses[k].response_content.id = sessions[j].officer_responses[r].response.id}

\* C22: after startup every stored officer response row names an officer
\* that has a row in the officers table: the roster is upserted before a
\* command can save, the results name officers of the roster only, and no
\* officer row is ever deleted, whatever roster a later start finds.
C22_ResponsesNameStoredOfficers ==
    /\ \A k \in 1..Len(responses) :
          \E r \in 1..Len(officer_rows) :
              officer_rows[r].officer_id = responses[k].officer_id
    /\ (cmd.name \in HandlerNames /\ cmd.pc = "save") =>
          \A j \in 1..Len(cmd.results) :
              \E r \in 1..Len(officer_rows) :
                  officer_rows[r].officer_id = cmd.results[j].officer_id

\* A response of the Support officer is stored, and the bot was started
\* again with a roster that has no Support officer
C22_Witness ==
    /\ cmd = NoCmd
    /\ "O5" \notin DOMAIN roster.officers
    /\ \E k \in 1..Len(responses) : responses[k].officer_id = "O5"
    /\ Len(officer_rows) = 6

\* C23: in save_mission the mission row is flushed, so that its id is
\* assigned, before any response row is built: a call that has not flushed
\* has no id and no response row; every stored response row carries the id
\* that the flush of the save it belongs to obtained, which is the id of
\* that save's mission row; and a save stores exactly one response row per
\* result it was given.
C23_ResponseRowsCarryTheFlushedId ==
    \A j \in 1..Len(sessions) :
        /\ sessions[j].pc = "flushing" =>
              (sessions[j].mission_id = 0 /\ ResponseRowsOf(j) = {})
        /\ sessions[j].pc \in {"flushed", "returned"} => sessions[j].mission_id >= 1
        /\ \A k \in ResponseRowsOf(j) :
              /\ responses[k].mission_id = sessions[j].mission_id
              /\ \E m \in MissionRowsOf(j) : missions[m].id = responses[k].mission_id
        /\ sessions[j].pc = "returned" =>
              /\ Cardinality(ResponseRowsOf(j)) = Len(sessions[j].officer_responses)
              /\ \A r \in 1..Len(sessions[j].officer_responses) :
                    Cardinality({k \in ResponseRowsOf(j) :
                        responses[k].officer_id
                            = sessions[j].officer_responses[r].officer_id}) = 1

\* The call created first flushed second and stored its two response rows
\* under id 2, while another call has flushed and built nothing yet
C23_Witness ==
    /\ Len(sessions) = 3
    /\ sessions[1].pc = "returned"
    /\ sessions[1].mission_id = 2
    /\ Cardinality({k \in 1..Len(responses) : responses[k].mission_id = 2}) = 2
    /\ sessions[3].pc = "flushed"
    /\ ResponseRowsOf(3) = {}

\* C24: ensure_channel_exists calls that run concurrently for the same
\* channel id that is not stored yet all complete without error, and when
\* they are done there is exactly one channel row for that id.
C24_ConcurrentEnsuresComplete ==
    /\ \A j \in 1..Len(sessions) : sessions[j].pc # "raised"
    /\ \A j \in 1..Len(sessions) :
          sessions[j].pc = "returned" =>
              Cardinality({row \in channels :
                               row.channel_id = sessions[j].channel_id}) = 1

\* C25: save_mission is all or nothing.  A call that was left by an
\* exception, at the flush or while the response rows were built, and a
\* call that has not committed, has neither a mission row nor a response
\* row in the tables; a call that returned has its mission row and every
\* one of its response rows.
C25_SaveMissionIsAllOrNothing ==
    \A j \in 1..Len(sessions) :
        IF sessions[j].pc = "returned"
        THEN /\ Cardinality(MissionRowsOf(j)) = 1
             /\ Cardinality(ResponseRowsOf(j)) = Len(sessions[j].officer_responses)
        ELSE MissionRowsOf(j) = {} /\ ResponseRowsOf(j) = {}

\* One call raised at the flush, one after the flush while its second
\* response row was built, one returned: only the last left rows
C25_Witness ==
    /\ Len(sessions) = 3
    /\ sessions[1].pc = "returned" /\ Cardinality(ResponseRowsOf(1)) = 2
    /\ sessions[2].pc = "raised" /\ sessions[2].mission_id = 0
    /\ sessions[3].pc = "raised" /\ sessions[3].mission_id >= 1
    /\ IsNone(sessions[3].officer_responses[2].response)
    /\ Len(missions) = 1
    /\ Len(responses) = 2

\* C26: whatever is stored for an (officer, channel) pair and whatever
\* max_tokens is, the string load_officer_memory returns has at most
\* 4 * max_tokens characters.
C26_MemoryWithinCharacterBudget ==
    db_call.name = "load_officer_memory" =>
        TextLen(db_call.returned) <= 4 * db_call.max_tokens

\* C27: every card the mission, research, continue and pivot handlers hand
\* to the batch sender, the header card included, has a description of at
\* most 4096 characters, whatever the lengths of the brief, the pivot
\* instruction and the responses.
C27_DescriptionsWithinLimit ==
    (cmd.name \in HandlerNames /\ cmd.reply = "cards") =>
        \A k \in 1..Len(cmd.descriptions) : cmd.descriptions[k] <= 4096

\* The notes that a step removes
RemovedNotes == {k \in 1..Len(notes) : \A m \in 1..Len(notes') : notes'[m] # notes[k]}

\* C29: through the memory command, notes are deleted only by a press of
\* the confirm button of a dialog that was opened for their (officer,
\* channel) pair and is still open, and then exactly the notes of that pair;
\* the clear action itself, a press of Cancel and the lapse of a dialog
\* leave every stored row as it is.
C29_NotesDeletedOnlyOnConfirm ==
    [][/\ RemovedNotes # {} =>
             /\ cmd'.name = "confirm"
             /\ [channel_id |-> cmd'.channel_id, officer_id |-> cmd'.officer_id]
                    \in dialogs
             /\ RemovedNotes = {k \in 1..Len(notes) :
                                   /\ notes[k].channel_id = cmd'.channel_id
                                   /\ notes[k].officer_id = cmd'.officer_id}
             /\ Len(notes') = Len(notes) - Cardinality(RemovedNotes)
       /\ (cmd'.name \in {"memory_clear", "cancel"} \/ dialogs' # dialogs) =>
             /\ notes' = notes
             /\ <<channels, missions, responses>>' = <<channels, missions, responses>>
      ]_vars

\* The dialog for (O1, 1) was confirmed while it was open: the note of
\* (O1, 1) is gone, the note of (O1, 2) is stored
C29_Witness ==
    /\ cmd.name = "confirm"
    /\ cmd.channel_id = 1
    /\ db_call.name = "clear_officer_memory"
    /\ next_id.note = 3
    /\ Len(notes) = 1
    /\ notes[1].channel_id = 2
    /\ [channel_id |-> 1, officer_id |-> "O1"] \in dialogs

\* C28: in a research-role query, a result whose response is a synthesized
\* placeholder (the model returned empty content or a tool call instead of a
\* text) is tagged success false, whether or not web search was requested
\* and whether or not the model supports it.
C28_PlaceholderIsNeverASuccess ==
    call.name = "query_research_council" =>
        \A i \in 1..Len(tasks) :
            (tasks[i].pc = "returned" /\ tasks[i].http \in {"empty", "tool_call"}) =>
                /\ tasks[i].result.response.kind \in {"tool_call_notice", "empty_notice"}
                /\ ~tasks[i].result.success

\* The memory segment of a query's system prompt: loaded for a channel id
\* that is given, present when it is not empty
MemorySegment(officer_id) ==
    IF ~FalsyId(call.channel_id)
       /\ MemoryOf(call.channel_id, officer_id, DEFAULT_MAX_TOKENS) # <<>>
    THEN <<"memory">> ELSE <<>>

\* The web-search note: present when web search is requested of a model
\* that supports it
WebSearchSegment(task) ==
    IF task.use_web_search
       /\ (NameHas(task.officer_id, "perplexity")
            \/ (NameHas(task.officer_id, "google") /\ NameHas(task.officer_id, "gemini")))
    THEN <<"web_search_note">> ELSE <<>>

\* C30: the system prompt sent for an officer query is, in this order, the
\* officer's base prompt, the role instruction (research query only), the
\* loaded memory context (when not empty) and the web-search note (when web
\* search is active); segments that do not apply are left out.
C30_SystemPromptOrder ==
    \A i \in 1..Len(tasks) :
        tasks[i].system_content # <<>> =>
            tasks[i].system_content =
                <<"system_prompt">>
                \o (IF tasks[i].role_index = NoRole THEN <<>> ELSE <<"role_instruction">>)
                \o MemorySegment(tasks[i].officer_id)
                \o WebSearchSegment(tasks[i])

(***************************************************************************)
(* Claims about the interaction handlers                                   *)
(***************************************************************************)
\* C13: on every command path (mission, research, memory add) a mission row
\* or a manual note is inserted only when the row of its channel is stored:
\* no insert refers to a channel that is missing from the table.
C13_ChannelStoredBeforeInsert ==
    ~(/\ db_call.name \in {"save_mission", "save_research_mission", "add_manual_note"}
      /\ db_call.raised
      /\ db_call.exception = "IntegrityError")

\* C14: a mission query, a continue query or a pivot query that has run to
\* its end has stored exactly one mission row, for its channel.
C14_OneMissionRowPerQuery ==
    (cmd.pc = "done" /\ cmd.name \in {"mission", "continue", "pivot"}
        /\ cmd.escaped = None) =>
        /\ Len(missions) = cmd.missions_before + 1
        /\ missions[Len(missions)].channel_id = cmd.channel_id

=============================================================================
